---- MODULE Spec2Model ----
(***************************************************************************)
(* Lead-mode solver and scattering assembler of the Kwant journal-club     *)
(* notebook (index.ipynb).  The notebook states the algorithm as           *)
(* equations; the model evaluates those equations in exact arithmetic over *)
(* the Gaussian rationals Q(i), so "within tolerance" reads "exactly".     *)
(* Inputs are drawn from leads whose modes lie in Q(i).                    *)
(***************************************************************************)
EXTENDS Integers, Sequences, FiniteSets, TLC

(***************************************************************************)
(* Exact complex numbers: <<a, b, d>> stands for (a + b i) / d, d >= 1,    *)
(* in lowest terms, so that equal numbers are equal tuples.                *)
(***************************************************************************)
Abs(n) == IF n < 0 THEN -n ELSE n

RECURSIVE Gcd(_, _)
Gcd(a, b) == IF b = 0 THEN a ELSE Gcd(b, a % b)

Lowest(a, b, d, g) == <<a \div g, b \div g, d \div g>>
\* (a + b i) / d for d >= 1
C(a, b, d) == Lowest(a, b, d, Gcd(Gcd(Abs(a), Abs(b)), d))

Zero == <<0, 0, 1>>
One == <<1, 0, 1>>
ImagI == <<0, 1, 1>>
Re(n) == <<n, 0, 1>>

\* common factors are removed before multiplying, to keep the integers small
AddOver(x, y, g) ==
    C(x[1] * (y[3] \div g) + y[1] * (x[3] \div g),
      x[2] * (y[3] \div g) + y[2] * (x[3] \div g), (x[3] \div g) * y[3])
CAdd(x, y) == AddOver(x, y, Gcd(x[3], y[3]))
CNeg(x) == <<-x[1], -x[2], x[3]>>
CSub(x, y) == CAdd(x, CNeg(y))
\* x y for x, y in lowest terms with no factor shared across
Times(x, y) == C(x[1] * y[1] - x[2] * y[2], x[1] * y[2] + x[2] * y[1], x[3] * y[3])
CMul(x, y) == Times(C(x[1], x[2], y[3]), C(y[1], y[2], x[3]))
CConj(x) == <<x[1], -x[2], x[3]>>
CInv(x) == C(x[1] * x[3], -(x[2] * x[3]), x[1] * x[1] + x[2] * x[2])
CDiv(x, y) == CMul(x, CInv(y))
\* |x|^2, a real number
CAbs2(x) == C(x[1] * x[1] + x[2] * x[2], 0, x[3] * x[3])
IsReal(x) == x[2] = 0
\* order of two real numbers
RLess(x, y) == x[1] * y[3] < y[1] * x[3]

(***************************************************************************)
(* Vectors are sequences of numbers; a matrix is the sequence of its rows. *)
(* A matrix always has at least one row; a matrix with no column has empty *)
(* rows.                                                                   *)
(***************************************************************************)
\* a vector or matrix given by a rule, as the tuple of its entries
Vec(f) == f \o <<>>
Mat(F) == [i \in 1..Len(F) |-> F[i] \o <<>>] \o <<>>

RECURSIVE CSum(_)
CSum(s) == IF s = <<>> THEN Zero ELSE CAdd(Head(s), CSum(Tail(s)))

NRows(M) == Len(M)
NCols(M) == IF M = <<>> THEN 0 ELSE Len(M[1])
ZeroMat(n, m) == Mat([i \in 1..n |-> [j \in 1..m |-> Zero]])
Ident(n) == Mat([i \in 1..n |-> [j \in 1..n |-> IF i = j THEN One ELSE Zero]])

\* <x, y> = x^dagger y
Inner(x, y) == CSum([k \in 1..Len(x) |-> CMul(CConj(x[k]), y[k])])
VAdd(x, y) == Vec([k \in 1..Len(x) |-> CAdd(x[k], y[k])])
VSub(x, y) == Vec([k \in 1..Len(x) |-> CSub(x[k], y[k])])
VScale(c, x) == Vec([k \in 1..Len(x) |-> CMul(c, x[k])])
MatVec(M, x) ==
    Vec([i \in 1..NRows(M) |-> CSum([k \in 1..Len(x) |-> CMul(M[i][k], x[k])])])
MatMul(M, N) == Mat([i \in 1..NRows(M) |-> [j \in 1..NCols(N) |->
        CSum([k \in 1..NRows(N) |-> CMul(M[i][k], N[k][j])])]])
MAdd(M, N) == Mat([i \in 1..NRows(M) |-> [j \in 1..NCols(M) |-> CAdd(M[i][j], N[i][j])]])
MSub(M, N) == Mat([i \in 1..NRows(M) |-> [j \in 1..NCols(M) |-> CSub(M[i][j], N[i][j])]])
MScale(c, M) == Mat([i \in 1..NRows(M) |-> [j \in 1..NCols(M) |-> CMul(c, M[i][j])]])
\* M^dagger of a matrix with at least one column
Dagger(M) == Mat([j \in 1..NCols(M) |-> [i \in 1..NRows(M) |-> CConj(M[i][j])]])
\* X Y^dagger and X^dagger Y, also for matrices with no column
MulDag(X, Y) == Mat([i \in 1..NRows(X) |-> [j \in 1..NRows(Y) |->
        CSum([k \in 1..NCols(X) |-> CMul(X[i][k], CConj(Y[j][k]))])]])
DagMul(X, Y) == Mat([i \in 1..NCols(X) |-> [j \in 1..NCols(Y) |->
        CSum([k \in 1..NRows(X) |-> CMul(CConj(X[k][i]), Y[k][j])])]])
\* the block matrix ((P, Q), (R, S))
Block(P, Q, R, S) == Mat([i \in 1..(NRows(P) + NRows(R)) |->
        IF i <= NRows(P) THEN P[i] \o Q[i] ELSE R[i - NRows(P)] \o S[i - NRows(P)]])

\* M without row i and column j
Minor(M, i, j) == Mat([r \in 1..(NRows(M) - 1) |-> [c \in 1..(NCols(M) - 1) |->
        M[IF r < i THEN r ELSE r + 1][IF c < j THEN c ELSE c + 1]]])
RECURSIVE Det(_)
Det(M) ==
    IF NRows(M) = 0 THEN One
    ELSE IF NRows(M) = 1 THEN M[1][1]
    ELSE CSum([j \in 1..NCols(M) |->
            IF M[1][j] = Zero THEN Zero
            ELSE CMul(IF j % 2 = 1 THEN M[1][j] ELSE CNeg(M[1][j]), Det(Minor(M, 1, j)))])
Cofactor(M, i, j) == CMul(Re(IF (i + j) % 2 = 0 THEN 1 ELSE -1), Det(Minor(M, i, j)))
\* inverse of a matrix with Det(M) # 0
Inverse(M) == Mat(LET dinv == CInv(Det(M))
    IN  [i \in 1..NRows(M) |-> [j \in 1..NRows(M) |-> CMul(dinv, Cofactor(M, j, i))]])

(***************************************************************************)
(* Gaussian elimination: rank and a basis of the null space.               *)
(***************************************************************************)
SwapRows(M, r, p) ==
    Mat([i \in 1..NRows(M) |-> IF i = r THEN M[p] ELSE IF i = p THEN M[r] ELSE M[i]])
\* row r scaled to a leading 1 in column c, column c cleared in the other rows
Eliminate(M, r, c) ==
    LET lead == VScale(CInv(M[r][c]), M[r])
    IN  Mat([i \in 1..NRows(M) |->
            IF i = r THEN lead
            ELSE IF M[i][c] = Zero THEN M[i]
            ELSE VSub(M[i], VScale(M[i][c], lead))])
RECURSIVE Rref(_, _, _)
\* reduced row echelon form from row r, column c on: [mat, piv] with piv the
\* pivot columns in row order
Rref(M, r, c) ==
    IF r > NRows(M) \/ c > NCols(M) THEN [mat |-> M, piv |-> <<>>]
    ELSE LET rows == {i \in r..NRows(M) : M[i][c] # Zero}
         IN  IF rows = {} THEN Rref(M, r, c + 1)
             ELSE LET p    == CHOOSE i \in rows : \A k \in rows : i <= k
                      rest == Rref(Eliminate(SwapRows(M, r, p), r, c), r + 1, c + 1)
                  IN  [mat |-> rest.mat, piv |-> <<c>> \o rest.piv]
Rank(M) == IF NCols(M) = 0 THEN 0 ELSE Len(Rref(M, 1, 1).piv)
RECURSIVE SortedSeq(_)
\* the numbers of a finite set of integers in increasing order
SortedSeq(S) ==
    IF S = {} THEN <<>>
    ELSE LET m == CHOOSE a \in S : \A b \in S : a <= b
         IN  <<m>> \o SortedSeq(S \ {m})
\* a basis of {x : M x = 0}, one vector for each free column
\* the null vectors read off the reduced form e of a matrix of n columns
NullBasis(n, e) ==
    LET pivs == {e.piv[k] : k \in 1..Len(e.piv)}
        free == SortedSeq((1..n) \ pivs)
    IN  Mat([f \in 1..Len(free) |->
            [j \in 1..n |->
                IF j = free[f] THEN One
                ELSE IF j \in pivs
                     THEN CNeg(e.mat[CHOOSE k \in 1..Len(e.piv) : e.piv[k] = j][free[f]])
                     ELSE Zero]])
NullSpace(M) == NullBasis(NCols(M), Rref(M, 1, 1))

(***************************************************************************)
(* Polynomials in mu, as the sequence of coefficients <<c0, c1, ...>>.     *)
(***************************************************************************)
PCoef(p, k) == IF k \in 1..Len(p) THEN p[k] ELSE Zero
PAdd(p, q) ==
    Vec([k \in 1..(IF Len(p) > Len(q) THEN Len(p) ELSE Len(q)) |->
            CAdd(PCoef(p, k), PCoef(q, k))])
PNeg(p) == Vec([k \in 1..Len(p) |-> CNeg(p[k])])
PMul(p, q) ==
    IF p = <<>> \/ q = <<>> THEN <<>>
    ELSE Vec([k \in 1..(Len(p) + Len(q) - 1) |->
            CSum([i \in 1..Len(p) |-> CMul(p[i], PCoef(q, k - i + 1))])])
RECURSIVE PTrim(_)
\* without trailing zero coefficients
PTrim(p) ==
    IF p = <<>> THEN <<>>
    ELSE IF p[Len(p)] = Zero THEN PTrim(SubSeq(p, 1, Len(p) - 1)) ELSE p
PDegree(p) == Len(PTrim(p)) - 1
RECURSIVE PEval(_, _)
PEval(p, z) == IF p = <<>> THEN Zero ELSE CAdd(Head(p), CMul(z, PEval(Tail(p), z)))
RECURSIVE PDet(_)
\* determinant of a matrix of polynomials
PDet(M) ==
    IF NRows(M) = 0 THEN <<One>>
    ELSE IF NRows(M) = 1 THEN M[1][1]
    ELSE LET term(j) == PMul(IF j % 2 = 1 THEN M[1][j] ELSE PNeg(M[1][j]),
                             PDet(Minor(M, 1, j)))
             RECURSIVE acc(_)
             acc(j) == IF j = 0 THEN <<>> ELSE PAdd(acc(j - 1), term(j))
         IN  acc(NCols(M))
\* det(L - mu R) as a polynomial in mu
CharPoly(L, R) ==
    PTrim(PDet(Mat([i \in 1..NRows(L) |-> [j \in 1..NCols(L) |->
                        <<L[i][j], CNeg(R[i][j])>>]])))
\* p divided by (mu - z), for a root z of p
PDeflate(p, z) ==
    LET RECURSIVE q(_)
        \* q(k) is the coefficient of mu^(k-1) of the quotient
        q(k) == IF k >= Len(p) THEN Zero ELSE CAdd(p[k + 1], CMul(z, q(k + 1)))
    IN  Vec([k \in 1..(Len(p) - 1) |-> q(k)])
RECURSIVE PMult(_, _)
\* the multiplicity of z as a root of p
PMult(p, z) ==
    IF Len(p) <= 1 \/ PEval(p, z) # Zero THEN 0 ELSE 1 + PMult(PDeflate(p, z), z)

(***************************************************************************)
(* Bounds of the model.                                                    *)
(***************************************************************************)
\* energies are the integers -MaxEnergy .. MaxEnergy
MaxEnergy == 5
\* the scalar sqrt(||V_l||) ranges over 1 .. MaxSqrtNorm
MaxSqrtNorm == 2
\* eigenvalues are looked for among the (a + b i) / d with
\* |a|, |b| <= MaxNumer and 1 <= d <= MaxDenom
MaxNumer == 4
MaxDenom == 5
\* scale factors are looked for among the a / (x + y i) with a, x, y <= MaxScale
MaxScale == 5
\* leads attached to one scattering region
MaxLeads == 2
\* the eigensolver's bases of a degenerate eigenspace: shear in 0 .. MaxShear
MaxShear == 2

Candidates ==
    {C(a, b, d) : a \in (-MaxNumer)..MaxNumer, b \in (-MaxNumer)..MaxNumer, d \in 1..MaxDenom}

\* a total order on numbers: by modulus, then real part, then imaginary part
CBefore(x, y) ==
    \/ RLess(CAbs2(x), CAbs2(y))
    \/ /\ CAbs2(x) = CAbs2(y)
       /\ \/ x[1] * y[3] < y[1] * x[3]
          \/ x[1] * y[3] = y[1] * x[3] /\ x[2] * y[3] < y[2] * x[3]
RECURSIVE OrderedSeq(_)
OrderedSeq(S) ==
    IF S = {} THEN <<>>
    ELSE LET m == CHOOSE a \in S : \A b \in S \ {a} : CBefore(a, b)
         IN  <<m>> \o OrderedSeq(S \ {m})
HasSqrt(n) == \E k \in 0..n : k * k = n
ISqrt(n) == CHOOSE k \in 0..n : k * k = n
\* the square root of a real number p/q >= 0 whose root is rational
RHasSqrt(x) == x[1] >= 0 /\ HasSqrt(x[1]) /\ HasSqrt(x[3])
RSqrt(x) == <<ISqrt(x[1]), 0, ISqrt(x[3])>>

(***************************************************************************)
(* The lead equations.                                                     *)
(***************************************************************************)
\* H_l - E
Shifted(H, E) == MSub(H, MScale(Re(E), Ident(NRows(H))))

\* V_l phi + lambda (H_l - E) phi + lambda^2 V_l^dagger phi
QuadraticResidual(H, V, E, lam, phi) ==
    VAdd(MatVec(V, phi),
         VAdd(VScale(lam, MatVec(Shifted(H, E), phi)),
              VScale(CMul(lam, lam), MatVec(Dagger(V), phi))))

\* v = i phi^dagger [lambda V_l^dagger - lambda^-1 V_l] phi
Velocity(V, lam, phi) ==
    CMul(ImagI,
         Inner(phi, VSub(VScale(lam, MatVec(Dagger(V), phi)),
                         VScale(CInv(lam), MatVec(V, phi)))))

\* propagating: |lambda| = 1; evanescent: |lambda| # 1
OnUnitCircle(lam) == CAbs2(lam) = One

(***************************************************************************)
(* solve_modes, step by step.                                              *)
(***************************************************************************)
IsSquare(M) == \A i \in 1..NRows(M) : Len(M[i]) = NRows(M)
\* the test with n > 1 in the place of n >= 1
DimensionsAgreeAboveOne(H, V) ==
    IsSquare(H) /\ IsSquare(V) /\ NRows(H) = NRows(V) /\ NRows(H) > 1
\* H_l and V_l are square and of one size
DimensionsAgree(H, V) == IsSquare(H) /\ IsSquare(V) /\ NRows(H) = NRows(V)

\* the test left out: every V_l taken for invertible
AssumedInvertible(V) == TRUE
\* the test with "not zero" in the place of "invertible"
IsNotZero(V) == \E i \in 1..NRows(V) : \E j \in 1..NCols(V) : V[i][j] # Zero
\* the test that V_l is invertible
IsInvertible(V) == Det(V) # Zero

\* Case V_l invertible: A = V_l / sqrt(||V_l||), B = sqrt(||V_l||).  The source
\* does not fix the norm, and V_l = A B^dagger for every positive value of it:
\* s stands for sqrt(||V_l||).
FactorScalar(V, s) ==
    [A |-> MScale(CInv(Re(s)), V), B |-> MScale(Re(s), Ident(NRows(V)))]

\* The singular value decomposition V_l = U S W^dagger over the non-zero singular
\* values, for a V_l with at most one non-zero entry in each row and column:
\* the entry t at (i, j) gives the singular value |t| with left vector
\* (t / |t|) e_i and right vector e_j.  Singular values in decreasing order.
Support(V) == {p \in (1..NRows(V)) \X (1..NRows(V)) : V[p[1]][p[2]] # Zero}
IsMonomial(V) ==
    \A p \in Support(V) : \A q \in Support(V) : p # q => p[1] # q[1] /\ p[2] # q[2]
RECURSIVE SingularOrder(_, _)
SingularOrder(V, S) ==
    IF S = {} THEN <<>>
    ELSE LET big(p, q) == \/ RLess(CAbs2(V[q[1]][q[2]]), CAbs2(V[p[1]][p[2]]))
                          \/ CAbs2(V[q[1]][q[2]]) = CAbs2(V[p[1]][p[2]]) /\ p[1] <= q[1]
             m == CHOOSE p \in S : \A q \in S : big(p, q)
         IN  <<m>> \o SingularOrder(V, S \ {m})
SvdOver(V, ps) ==
    LET t(k) == V[ps[k][1]][ps[k][2]]
        m(k) == RSqrt(CAbs2(t(k)))
    IN  [U |-> Mat([i \in 1..NRows(V) |-> [k \in 1..Len(ps) |->
                       IF ps[k][1] = i THEN CDiv(t(k), m(k)) ELSE Zero]]),
         S |-> Vec([k \in 1..Len(ps) |-> m(k)]),
         W |-> Mat([j \in 1..NRows(V) |-> [k \in 1..Len(ps) |->
                       IF ps[k][2] = j THEN One ELSE Zero]])]
Svd(V) == SvdOver(V, SingularOrder(V, Support(V)))
\* the square roots in Svd and FactorSvd are rational
SvdIsExact(V) ==
    /\ IsMonomial(V)
    /\ \A p \in Support(V) :
          /\ RHasSqrt(CAbs2(V[p[1]][p[2]]))
          /\ RHasSqrt(RSqrt(CAbs2(V[p[1]][p[2]])))

\* the factors without the square roots of the singular values: A = U, B = W
FactorsUnscaled(d) == [A |-> d.U, B |-> d.W]
\* Case V_l not invertible: A = U sqrt(S), B = W sqrt(S)
Factors(d) ==
    LET scaled(M) == Mat([i \in 1..NRows(M) |-> [k \in 1..Len(d.S) |->
                             CMul(M[i][k], RSqrt(d.S[k]))]])
    IN  [A |-> scaled(d.U), B |-> scaled(d.W)]
FactorSvd(V) == Factors(Svd(V))

\* the shift i A A^dagger + i B B^dagger replaced by the full-rank shift i
HbarFullShift(H, E, A, B) == MAdd(Shifted(H, E), MScale(ImagI, Ident(NRows(H))))
\* the stabilizing shift left out
HbarWithoutShift(H, E, A, B) == Shifted(H, E)
\* [H_l - E + i A A^dagger + i B B^dagger]
Hbar(H, E, A, B) ==
    MAdd(Shifted(H, E), MScale(ImagI, MAdd(MulDag(A, A), MulDag(B, B))))

\* X^dagger Hbar^-1 Y
Sandwich(X, Hinv, Y) == DagMul(X, MatMul(Hinv, Y))

\* left-hand matrix of the stabilized problem
StabilizedLhs(A, B, Hinv) ==
    LET gAB == Sandwich(A, Hinv, B)
        gBB == Sandwich(B, Hinv, B)
        id  == Ident(NCols(A))
    IN  Block(MScale(CNeg(ImagI), gAB), gAB,
              MSub(id, MScale(ImagI, gBB)), gBB)

\* right-hand matrix of the stabilized problem
StabilizedRhs(A, B, Hinv) ==
    LET gAA == Sandwich(A, Hinv, A)
        gBA == Sandwich(B, Hinv, A)
        id  == Ident(NCols(A))
    IN  Block(MScale(Re(-1), gAA), MSub(MScale(ImagI, gAA), id),
              MScale(Re(-1), gBA), MScale(ImagI, gBA))

\* the matrix of the invertible case with the minus signs of its first row lost
NonsingularMatrixUnsigned(H, E, A, B) ==
    Block(MatMul(Inverse(A), MatMul(Shifted(H, E), Inverse(Dagger(B)))),
          MatMul(Inverse(A), B),
          MatMul(Dagger(A), Inverse(Dagger(B))),
          ZeroMat(NRows(H), NRows(H)))
\* the matrix of the invertible case, acting on (phibar, xibar)
NonsingularMatrix(H, E, A, B) ==
    LET Ainv    == Inverse(A)
        Bdaginv == Inverse(Dagger(B))
        n       == NRows(H)
    IN  Block(MScale(Re(-1), MatMul(Ainv, MatMul(Shifted(H, E), Bdaginv))),
              MScale(Re(-1), MatMul(Ainv, B)),
              MatMul(Dagger(A), Bdaginv),
              ZeroMat(n, n))

\* the outcome of a failed step
Failure(e) ==
    [err |-> e, path |-> "none", tag |-> "none", A |-> <<>>, B |-> <<>>,
     Hinv |-> <<>>, L |-> <<>>, R |-> <<>>, inverted |-> {}]

\* Case V_l invertible: the ordinary eigenproblem L x = lambda^-1 x
NonsingularProblem(H, V, E, s) ==
    LET f == FactorScalar(V, s)
    IN  IF Det(f.A) = Zero THEN Failure("InversionOfHoppingFailed")
        ELSE [err |-> "none", path |-> "nonsingular", tag |-> "standard",
              A |-> f.A, B |-> f.B, Hinv |-> <<>>,
              L |-> NonsingularMatrix(H, E, f.A, f.B), R |-> Ident(2 * NRows(H)),
              inverted |-> {"A", "Bdagger"}]

\* the stabilized problem always left as a generalized eigenvalue problem
StabilizedProblemLeftAsIs(f, Hinv, lhs, rhs) ==
    [err |-> "none", path |-> "singular", tag |-> "generalized",
     A |-> f.A, B |-> f.B, Hinv |-> Hinv, L |-> lhs, R |-> rhs, inverted |-> {"Hbar"}]
\* Case V_l not invertible: the stabilized problem L x = lambda^-1 R x.  If the
\* right-hand matrix is invertible its inverse is applied, otherwise the problem
\* is left as a generalized eigenvalue problem.
StabilizedProblem(f, Hinv, lhs, rhs) ==
    IF Det(rhs) # Zero
    THEN [err |-> "none", path |-> "singular", tag |-> "standard",
          A |-> f.A, B |-> f.B, Hinv |-> Hinv,
          L |-> MatMul(Inverse(rhs), lhs), R |-> Ident(NRows(rhs)),
          inverted |-> {"Hbar", "Rhs"}]
    ELSE [err |-> "none", path |-> "singular", tag |-> "generalized",
          A |-> f.A, B |-> f.B, Hinv |-> Hinv,
          L |-> lhs, R |-> rhs, inverted |-> {"Hbar"}]
\* with the factors f of V_l and hb = Hbar
Stabilize(f, hb) ==
    IF Det(hb) = Zero THEN Failure("SingularLeadError")
    ELSE StabilizedProblem(f, Inverse(hb), StabilizedLhs(f.A, f.B, Inverse(hb)),
                           StabilizedRhs(f.A, f.B, Inverse(hb)))
SingularProblem(H, V, E) ==
    Stabilize(FactorSvd(V), Hbar(H, E, FactorSvd(V).A, FactorSvd(V).B))

\* the eigenproblem solve_modes builds for (H_l, V_l, E)
EigenProblem(H, V, E, s) ==
    IF ~DimensionsAgree(H, V) THEN Failure("DimensionMismatch")
    ELSE IF IsInvertible(V) THEN NonsingularProblem(H, V, E, s)
    ELSE SingularProblem(H, V, E)

(***************************************************************************)
(* The eigensolver, by its contract: the eigenvalues mu = 1/lambda are the *)
(* roots of det(L - mu R), with their multiplicities; a root at infinity   *)
(* (lambda = 0) for each degree the polynomial lacks.  Infinity is written *)
(* <<1, 0, 0>>.                                                            *)
(***************************************************************************)
Infinity == <<1, 0, 0>>
Reciprocal(z) == IF z = Infinity THEN Zero ELSE IF z = Zero THEN Infinity ELSE CInv(z)

RECURSIVE MPow(_, _)
MPow(M, k) == IF k = 0 THEN Ident(NRows(M)) ELSE MatMul(M, MPow(M, k - 1))
RECURSIVE Extend(_, _)
\* basis extended by the vectors of cands that are independent of it
Extend(basis, cands) ==
    IF cands = <<>> THEN basis
    ELSE IF Rank(Append(basis, Head(cands))) = Len(basis) + 1
         THEN Extend(Append(basis, Head(cands)), Tail(cands))
         ELSE Extend(basis, Tail(cands))
\* m vectors for the root z of multiplicity m: the eigenvectors first, then
\* generalized eigenvectors when the eigenvalue is defective
\* L - z R
Pencil(L, R, z) == MSub(L, MScale(z, R))
\* the root z paired with the first m vectors of all, of which eig are eigenvectors
Paired(z, m, eig, all) ==
    Vec([k \in 1..m |->
            [mu |-> z, vec |-> IF k <= Len(all) THEN all[k] ELSE all[Len(all)],
             eigen |-> k <= Len(eig)]])
RootVectors(L, R, z, m) ==
    Paired(z, m, NullSpace(Pencil(L, R, z)),
           Extend(NullSpace(Pencil(L, R, z)), NullSpace(MPow(Pencil(L, R, z), m))))
RECURSIVE Flatten(_)
Flatten(ss) == IF ss = <<>> THEN <<>> ELSE Head(ss) \o Flatten(Tail(ss))
\* the roots of p among the candidates
Roots(p) == OrderedSeq({z \in Candidates : PEval(p, z) = Zero})
FinitePairs(L, R, p, roots) ==
    Flatten(Vec([k \in 1..Len(roots) |-> RootVectors(L, R, roots[k], PMult(p, roots[k]))]))
PairsOf(L, R, p) ==
    FinitePairs(L, R, p, Roots(p))
    \o Paired(Infinity, NRows(L) - PDegree(p), NullSpace(R), NullSpace(R))
EigenPairs(L, R) == PairsOf(L, R, CharPoly(L, R))
\* every eigenvalue of the problem is among the candidates
EigenComplete(L, R, pairs) == CharPoly(L, R) # <<>> /\ Len(pairs) = NRows(L)

(***************************************************************************)
(* From the eigenvectors to the modes.  A vector of the eigenproblem is    *)
(* x = (phibar, xibar); the working form of a mode carries                 *)
(* full = phi \o phibar \o xibar, so that a change of basis acts on the    *)
(* three at once.                                                          *)
(***************************************************************************)
\* phi of an eigenvector.  Invertible case: phibar = B^dagger phi.  Other
\* case: phi = Hbar^-1 (-B xibar - mu A phibar + i mu A xibar + i B phibar)
\* with mu = lambda^-1.
Wavefunction(p, mu, phibar, xibar) ==
    IF p.path = "nonsingular" THEN MatVec(Inverse(Dagger(p.B)), phibar)
    ELSE MatVec(p.Hinv,
                VAdd(VAdd(VScale(Re(-1), MatVec(p.B, xibar)),
                          VScale(CNeg(mu), MatVec(p.A, phibar))),
                     VAdd(VScale(CMul(ImagI, mu), MatVec(p.A, xibar)),
                          VScale(ImagI, MatVec(p.B, phibar)))))

\* the eigenvectors as returned by the eigensolver: inside an eigenspace of
\* dimension two or more the basis is the solver's choice; shear = k stands
\* for the basis (x1, k x1 + x2, k x1 + x3, ...)
Sheared(pairs, shear) ==
    Vec([k \in 1..Len(pairs) |->
            IF k > 1 /\ pairs[k].eigen /\ pairs[k - 1].mu = pairs[k].mu
            THEN LET first == CHOOSE j \in 1..k :
                                  /\ pairs[j].mu = pairs[k].mu
                                  /\ \A i \in 1..(j - 1) : pairs[i].mu # pairs[k].mu
                 IN  [pairs[k] EXCEPT
                         !.vec = VAdd(VScale(Re(shear), pairs[first].vec), pairs[k].vec)]
            ELSE pairs[k]])

\* the working form of the modes of problem p, in the order of the eigenvalues
RawModes(p, pairs) ==
    LET r == NCols(p.A)
    IN  Vec([k \in 1..Len(pairs) |->
            LET phibar == SubSeq(pairs[k].vec, 1, r)
                xibar  == SubSeq(pairs[k].vec, r + 1, 2 * r)
                mu     == pairs[k].mu
            IN  [mu |-> mu, lam |-> Reciprocal(mu), eigen |-> pairs[k].eigen,
                 full |-> Wavefunction(p, mu, phibar, xibar) \o phibar \o xibar]])

Phi(m, n) == SubSeq(m.full, 1, n)

\* a number c with |c|^2 = 1 / |v|, for a real v # 0; its phase is arbitrary
\* sought as c = a / (x + y i) with a^2 / (x^2 + y^2) = 1 / |v|
Scales(v) ==
    LET p == Abs(v[1])
        q == v[3]
        N == 0..MaxScale
    IN  {CDiv(Re(t[1]), C(t[2], t[3], 1)) :
            t \in {u \in (N \ {0}) \X N \X N :
                      u[1] * u[1] * p = q * (u[2] * u[2] + u[3] * u[3])}}
HasScale(v) == Scales(v) # {}
Scale(v) == CHOOSE c \in Scales(v) : \A d \in Scales(v) \ {c} : CBefore(c, d)

\* Gram-Schmidt on the working vectors, orthogonal in the entries lo..hi
RECURSIVE GramSchmidt(_, _, _, _)
GramSchmidt(done, todo, lo, hi) ==
    IF todo = <<>> THEN done
    ELSE LET part(f) == SubSeq(f, lo, hi)
             RECURSIVE sub(_, _)
             sub(y, k) ==
                 IF k > Len(done) THEN y
                 ELSE sub(VSub(y, VScale(CDiv(Inner(part(done[k]), part(y)),
                                              Inner(part(done[k]), part(done[k]))),
                                         done[k])),
                          k + 1)
         IN  GramSchmidt(Append(done, sub(Head(todo), 1)), Tail(todo), lo, hi)

\* |lambda| < 1: the mode decays away from the scattering region
Decays(lam) == RLess(CAbs2(lam), One)

\* a grazing mode taken for a decaying one
GrazingAsDecaying(m) ==
    [lam |-> m.lam, full |-> m.full, kind |-> "evanescent", grazing |-> FALSE,
     dir |-> "outgoing"]
\* a mode of zero velocity (grazing) is treated as evanescent
Grazing(m) ==
    [lam |-> m.lam, full |-> m.full, kind |-> "evanescent", grazing |-> TRUE, dir |-> "none"]
\* the sign of v ignored: every propagating mode tagged outgoing
NormalizedUnsigned(m, v) ==
    [lam |-> m.lam, full |-> VScale(Scale(v), m.full), kind |-> "propagating",
     grazing |-> FALSE, dir |-> "outgoing"]
\* a mode of velocity v # 0: tagged by the sign of v and rescaled to |v| = 1
Normalized(m, v) ==
    [lam |-> m.lam, full |-> VScale(Scale(v), m.full), kind |-> "propagating",
     grazing |-> FALSE, dir |-> IF RLess(Zero, v) THEN "outgoing" ELSE "incoming"]
ByVelocity(m, v) == IF v = Zero THEN Grazing(m) ELSE Normalized(m, v)
\* Step 5 on one mode: a mode with |lambda| # 1 is evanescent, outgoing when it
\* decays; one with |lambda| = 1 is classified by the velocity of its
\* eigenvector
Classified(V, n, m) ==
    IF ~OnUnitCircle(m.lam)
    THEN [lam |-> m.lam, full |-> m.full, kind |-> "evanescent", grazing |-> FALSE,
          dir |-> IF Decays(m.lam) THEN "outgoing" ELSE "incoming"]
    ELSE ByVelocity(m, IF m.eigen THEN Velocity(V, m.lam, Phi(m, n)) ELSE Zero)

\* the positions before k of the modes of ms with the lambda of ms[k]
SameBefore(ms, k) == {j \in 1..(k - 1) : ms[j].lam = ms[k].lam}

\* Step 6: the propagating modes of equal lambda, orthogonalized (Gram-Schmidt
\* on the wavefunctions, in the order of the modes)
Orthogonalized(props, n) ==
    Vec([k \in 1..Len(props) |->
            LET idx   == SortedSeq(SameBefore(props, k) \cup {k})
                group == Vec([j \in 1..Len(idx) |-> props[idx[j]].full])
                gs    == GramSchmidt(<<>>, group, 1, n)
            IN  [props[k] EXCEPT !.full = gs[Len(gs)]]])

\* of the grazing modes of one lambda, the first half counts as outgoing
GrazingOut(ms) ==
    LET G == SelectSeq(ms, LAMBDA m : m.grazing)
        size(k) == Cardinality({j \in 1..Len(G) : G[j].lam = G[k].lam})
        idx == SortedSeq({k \in 1..Len(G) : 2 * Cardinality(SameBefore(G, k)) < size(k)})
    IN  Vec([j \in 1..Len(idx) |-> G[idx[j]]])

\* the outgoing evanescent subspace as Schur vectors: the decaying modes first,
\* each vector made orthogonal (in the eigenproblem's space) to those before
SchurVectors(evan, n) ==
    LET gs == GramSchmidt(<<>>, Vec([k \in 1..Len(evan) |-> evan[k].full]),
                          n + 1, Len(evan[1].full))
    IN  Vec([k \in 1..Len(evan) |-> [evan[k] EXCEPT !.full = gs[k], !.dir = "outgoing"]])

\* a mode as the bundle holds it
Mode(m, n) ==
    [lam |-> m.lam, kind |-> m.kind, grazing |-> m.grazing, dir |-> m.dir, phi |-> Phi(m, n),
     phibar |-> SubSeq(m.full, n + 1, n + (Len(m.full) - n) \div 2),
     xibar  |-> SubSeq(m.full, n + (Len(m.full) - n) \div 2 + 1, Len(m.full))]
Modes(ms, n) == Vec([k \in 1..Len(ms) |-> Mode(ms[k], n)])

\* the incoming set not filtered by direction
BundleUnfiltered(n, B, props, evan) ==
    [n |-> n, B |-> B,
     prop_out |-> Modes(SelectSeq(props, LAMBDA m : m.dir = "outgoing"), n),
     prop_in  |-> Modes(props, n),
     evan_out |-> IF evan = <<>> THEN <<>> ELSE Modes(SchurVectors(evan, n), n)]
\* the ModeBundle: Phi_+ is prop_out followed by evan_out, Phi_p- is prop_in
Bundle(n, B, props, evan) ==
    [n |-> n, B |-> B,
     prop_out |-> Modes(SelectSeq(props, LAMBDA m : m.dir = "outgoing"), n),
     prop_in  |-> Modes(SelectSeq(props, LAMBDA m : m.dir = "incoming"), n),
     evan_out |-> IF evan = <<>> THEN <<>> ELSE Modes(SchurVectors(evan, n), n)]
\* from the classified modes cls
Partitioned(n, B, cls) ==
    Bundle(n, B, Orthogonalized(SelectSeq(cls, LAMBDA m : m.kind = "propagating"), n),
           SelectSeq(cls, LAMBDA m : m.kind = "evanescent" /\ m.dir = "outgoing")
           \o GrazingOut(cls))
ClassifiedAll(V, raw) == Vec([k \in 1..Len(raw) |-> Classified(V, NRows(V), raw[k])])
ModeBundle(p, V, pairs) == Partitioned(NRows(V), p.B, ClassifiedAll(V, RawModes(p, pairs)))

\* the eigenproblem of (H_l, V_l, E) and its solution
Solution(p) == [p |-> p, pairs |-> IF p.err = "none" THEN EigenPairs(p.L, p.R) ELSE <<>>]
Prepared(H, V, E, s) == Solution(EigenProblem(H, V, E, s))

\* the result of solve_modes from the solved eigenproblem: the error, if any,
\* and the bundle (a sequence of none or one)
Finished(V, q, shear) ==
    [err |-> q.p.err, path |-> q.p.path, tag |-> q.p.tag, inverted |-> q.p.inverted,
     bundle |-> IF q.p.err # "none" THEN <<>>
                ELSE <<ModeBundle(q.p, V, Sheared(q.pairs, shear))>>]

\* solve_modes(H_l, V_l, E); s and shear are the choices the source leaves open
solve_modes(H, V, E, s, shear) == Finished(V, Prepared(H, V, E, s), shear)

\* The inputs the model computes exactly: the singular value decomposition,
\* every eigenvalue and every unit-velocity rescaling lie in Q(i), and no
\* eigenvalue is 0 or infinite.
HasExactFactors(H, V) == DimensionsAgree(H, V) => IsInvertible(V) \/ SvdIsExact(V)
ExactVelocity(v) == v = Zero \/ (IsReal(v) /\ HasScale(v))
ExactModes(V, raw) ==
    \A k \in 1..Len(raw) :
        OnUnitCircle(raw[k].lam) /\ raw[k].eigen =>
            ExactVelocity(Velocity(V, raw[k].lam, Phi(raw[k], NRows(V))))
IsExactFor(V, q, shear) ==
    \/ q.p.err # "none"
    \/ /\ EigenComplete(q.p.L, q.p.R, q.pairs)
       /\ \A k \in 1..Len(q.pairs) : q.pairs[k].mu \notin {Zero, Infinity}
       /\ ExactModes(V, RawModes(q.p, Sheared(q.pairs, shear)))

(***************************************************************************)
(* solve_scattering: the reduced linear system                             *)
(*   ( H_s - E       P^T B Xibar_+ ) ( Psi_s )   ( -P^T B Xibar_p- )       *)
(*   ( B^dagger P    -Phibar_+     ) ( Q_+   ) = (  Phibar_p-      )       *)
(* with one block row and one block column for each lead.                  *)
(***************************************************************************)
Transpose(P) == Mat([j \in 1..NCols(P) |-> [i \in 1..NRows(P) |-> P[i][j]]])
\* the matrix with the given columns, each of length n
Columns(cols, n) == Mat([i \in 1..n |-> [k \in 1..Len(cols) |-> cols[k][i]]])
\* Phi_+ : the outgoing modes, propagating first
Outgoing(b) == b.prop_out \o b.evan_out
XibarOut(b) ==
    Columns([k \in 1..Len(Outgoing(b)) |-> Outgoing(b)[k].xibar], NCols(b.B))
PhibarOut(b) ==
    Columns([k \in 1..Len(Outgoing(b)) |-> Outgoing(b)[k].phibar], NCols(b.B))

RECURSIVE SumTo(_, _)
SumTo(sizes, k) == IF k = 0 THEN 0 ELSE sizes[k] + SumTo(sizes, k - 1)
\* the block l and the place a inside it of index idx, for blocks of the given sizes
Locate(sizes, idx) ==
    LET l == CHOOSE k \in 1..Len(sizes) : SumTo(sizes, k - 1) < idx /\ idx <= SumTo(sizes, k)
    IN  [l |-> l, a |-> idx - SumTo(sizes, l - 1)]

RowSizes(leads) == Vec([l \in 1..Len(leads) |-> NCols(leads[l].bundle.B)])
\* the columns of the propagating outgoing modes alone
ColSizesPropagating(leads) ==
    Vec([l \in 1..Len(leads) |-> Len(leads[l].bundle.prop_out)])
ColSizes(leads) == Vec([l \in 1..Len(leads) |-> Len(Outgoing(leads[l].bundle))])
\* one column for each lead that has an incoming mode, not for each mode
InSizesOnePerLead(leads) ==
    Vec([l \in 1..Len(leads) |-> IF leads[l].bundle.prop_in = <<>> THEN 0 ELSE 1])
InSizes(leads) == Vec([l \in 1..Len(leads) |-> Len(leads[l].bundle.prop_in)])
\* the evanescent modes counted with the propagating ones
OutSizesWithEvanescent(leads) == ColSizes(leads)
OutSizes(leads) == Vec([l \in 1..Len(leads) |-> Len(leads[l].bundle.prop_out)])

\* the matrix on the left
BlockMatrix(Hs, leads, E) ==
    LET N    == NRows(Hs)
        rows == RowSizes(leads)
        cols == ColSizes(leads)
        hs   == Shifted(Hs, E)
        top  == Vec([l \in 1..Len(leads) |->
                    MatMul(Transpose(leads[l].P),
                           MatMul(leads[l].bundle.B, XibarOut(leads[l].bundle)))])
        low  == Vec([l \in 1..Len(leads) |-> DagMul(leads[l].bundle.B, leads[l].P)])
        phib == Vec([l \in 1..Len(leads) |-> PhibarOut(leads[l].bundle)])
    IN  Mat([i \in 1..(N + SumTo(rows, Len(rows))) |->
             [j \in 1..(N + SumTo(cols, Len(cols))) |->
                 IF i <= N
                 THEN IF j <= N THEN hs[i][j]
                      ELSE LET c == Locate(cols, j - N) IN top[c.l][i][c.a]
                 ELSE LET r == Locate(rows, i - N)
                      IN  IF j <= N THEN low[r.l][r.a][j]
                          ELSE LET c == Locate(cols, j - N)
                               IN  IF c.l = r.l THEN CNeg(phib[r.l][r.a][c.a])
                                   ELSE Zero]])

\* the right-hand sides: one column for each incoming propagating mode
RightHandSide(Hs, leads) ==
    LET N    == NRows(Hs)
        rows == RowSizes(leads)
        ins  == InSizes(leads)
        src(j) == LET c == Locate(ins, j)
                  IN  [l |-> c.l, m |-> leads[c.l].bundle.prop_in[c.a]]
        top(j) == MatVec(Transpose(leads[src(j).l].P),
                         MatVec(leads[src(j).l].bundle.B, src(j).m.xibar))
    IN  Mat([i \in 1..(N + SumTo(rows, Len(rows))) |->
             [j \in 1..SumTo(ins, Len(ins)) |->
                 IF i <= N THEN CNeg(top(j)[i])
                 ELSE LET r == Locate(rows, i - N)
                      IN  IF r.l = src(j).l THEN src(j).m.phibar[r.a] ELSE Zero]])

\* solve_scattering(H_s, leads, E), each lead given as [P, bundle]: the block
\* matrix is factorized once (Gaussian elimination of the matrix together with
\* all right-hand sides); a singular block matrix is reported
\* the rows of the unknowns X, of ncol columns, in the eliminated system e:
\* Psi_s is the first N rows, Q_+ the others, S the rows of Q_+ that belong to
\* propagating modes
\* S taken as the leading rows of Q_+, as many as there are propagating modes
UnknownsLeadingRows(N, leads, ncol, dim, e) ==
    LET X(i) == SubSeq(e.mat[i], dim + 1, dim + ncol)
        count == SumTo(OutSizes(leads), Len(leads))
    IN  [Psi |-> Vec([i \in 1..N |-> X(i)]),
         Q |-> Vec([i \in 1..(dim - N) |-> X(N + i)]),
         S |-> Vec([k \in 1..count |-> X(N + k)]),
         rows |-> count, cols |-> ncol]
Unknowns(N, leads, ncol, dim, e) ==
    LET X(i) == SubSeq(e.mat[i], dim + 1, dim + ncol)
        prop == SortedSeq({i \in 1..(dim - N) :
                    Locate(ColSizes(leads), i).a
                        <= OutSizes(leads)[Locate(ColSizes(leads), i).l]})
    IN  [Psi |-> Vec([i \in 1..N |-> X(i)]),
         Q |-> Vec([i \in 1..(dim - N) |-> X(N + i)]),
         S |-> Vec([k \in 1..Len(prop) |-> X(N + prop[k])]),
         rows |-> Len(prop), cols |-> ncol]
\* the singular matrix not reported: the unknowns read off all the same
EliminatedUnreported(N, leads, E, dim, width, e) ==
    [err |-> "none", energy |-> E,
     result |-> <<Unknowns(N, leads, SumTo(InSizes(leads), Len(leads)), dim, e)>>]
Eliminated(N, leads, E, dim, width, e) ==
    IF \/ width # dim
       \/ Len(e.piv) < dim
       \/ \E k \in 1..dim : e.piv[k] # k
    THEN [err |-> "SingularAssemblyMatrix", energy |-> E, result |-> <<>>]
    ELSE [err |-> "none", energy |-> E,
          result |-> <<Unknowns(N, leads, SumTo(InSizes(leads), Len(leads)), dim, e)>>]
Factorized(N, leads, E, M, rhs) ==
    Eliminated(N, leads, E, NRows(M), NCols(M),
               Rref(Mat([i \in 1..NRows(M) |-> M[i] \o rhs[i]]), 1, 1))
solve_scattering(Hs, leads, E) ==
    Factorized(NRows(Hs), leads, E, BlockMatrix(Hs, leads, E), RightHandSide(Hs, leads))

(***************************************************************************)
(* The inputs: leads (H_l, V_l) and scattering regions H_s.                *)
(***************************************************************************)
M1(a) == <<<<Re(a)>>>>
M2(a, b, c, d) == <<<<Re(a), Re(b)>>, <<Re(c), Re(d)>>>>

LeadCatalog ==
    << \* single-band chains H_l = [2t], V_l = [t]
       [H |-> M1(4), V |-> M1(2)],
       [H |-> M1(-4), V |-> M1(-2)],
       [H |-> M1(10), V |-> M1(5)],
       \* a chain with complex hopping
       [H |-> M1(4), V |-> <<<<C(0, 2, 1)>>>>],
       \* disconnected cells, V_l = 0
       [H |-> M1(4), V |-> M1(0)],
       [H |-> M2(4, 1, 1, 4), V |-> M2(0, 0, 0, 0)],
       \* V_l of rank one
       [H |-> M2(4, 0, 0, 3), V |-> M2(4, 0, 0, 0)],
       \* two coupled bands, eigenvectors not orthogonal
       [H |-> M2(-11, -6, -6, -9), V |-> M2(6, 0, 3, 3)],
       \* two equal bands: every eigenvalue degenerate
       [H |-> M2(4, 0, 0, 4), V |-> M2(2, 0, 0, 2)],
       \* two bands of opposite velocity at equal lambda
       [H |-> M2(4, 0, 0, 4), V |-> M2(2, 0, 0, -1)],
       \* H_l and V_l of different sizes
       [H |-> M1(4), V |-> M2(2, 0, 0, 2)],
       [H |-> M2(4, 0, 0, 4), V |-> M1(2)] >>

RegionCatalog == << M1(0), M1(1), M1(3), M2(0, -1, -1, 0) >>

\* P_s for a lead cell of n sites on a region of N sites: site i of the cell
\* continues region site i (modulo N)
Coupling(n, N) ==
    Mat([i \in 1..n |-> [j \in 1..N |-> IF j = ((i - 1) % N) + 1 THEN One ELSE Zero]])

Energies == (-MaxEnergy)..MaxEnergy

\* the results of solve_modes on the exact inputs, computed once
Outcomes(V, q) ==
    Vec([k \in 1..(MaxShear + 1) |->
            IF IsExactFor(V, q, k - 1) THEN {Finished(V, q, k - 1)} ELSE {}])
SolvedFor(H, V, E, s) ==
    IF HasExactFactors(H, V) THEN Outcomes(V, Prepared(H, V, E, s))
    ELSE [k \in 1..(MaxShear + 1) |-> {}]
Solved ==
    Vec([l \in 1..Len(LeadCatalog) |->
        Vec([e \in 1..(2 * MaxEnergy + 1) |->
            Vec([s \in 1..MaxSqrtNorm |->
                SolvedFor(LeadCatalog[l].H, LeadCatalog[l].V, e - MaxEnergy - 1, s)])])])
Lookup(l, E, s, shear) == Solved[l][E + MaxEnergy + 1][s][shear + 1]

(***************************************************************************)
(* The calls: at one energy, solve_modes for each lead, then               *)
(* solve_scattering for a region with these leads.                         *)
(***************************************************************************)
VARIABLES phase, energy, leads, region, outcome, calls, built, fill
vars == <<phase, energy, leads, region, outcome, calls, built, fill>>

NoOutcome == [err |-> "none", energy |-> 0, result |-> <<>>]

\* the workers that make calls side by side, none of them in a call
Workers == {"w1", "w2"}
NoCalls == [w \in Workers |-> [pc |-> "idle", job |-> <<>>, result |-> <<>>]]

\* no builder is being filled
NoFill == [builder |-> "none", site |-> <<0, 0>>]

Init ==
    /\ phase = "idle"
    /\ energy = 0
    /\ leads = <<>>
    /\ region = <<>>
    /\ outcome = NoOutcome
    /\ calls = NoCalls
    /\ built = <<>>
    /\ fill = NoFill

Begin(E) ==
    /\ phase = "idle"
    /\ phase' = "modes"
    /\ energy' = E
    /\ UNCHANGED <<leads, region, outcome, calls, built, fill>>

AllSolved == \A l \in 1..Len(leads) : leads[l].out.err = "none"

\* a result kept from the call before and handed out again, whatever the inputs
CallModesCached(l, E, s, shear) ==
    IF leads # <<>> THEN {leads[Len(leads)].out} ELSE Lookup(l, E, s, shear)
\* the call solve_modes(H_l, V_l, E) for lead l of the catalog: its result
\* comes from its arguments
CallModes(l, E, s, shear) == Lookup(l, E, s, shear)

SolveModes(l, s, shear) ==
    /\ phase = "modes"
    /\ Len(leads) < MaxLeads
    /\ AllSolved
    /\ \E out \in CallModes(l, energy, s, shear) :
           leads' = Append(leads, [H |-> LeadCatalog[l].H, V |-> LeadCatalog[l].V,
                                   out |-> out])
    /\ UNCHANGED <<phase, energy, region, outcome, calls, built, fill>>

\* the leads as solve_scattering takes them
Attached(Hs) ==
    Vec([l \in 1..Len(leads) |->
            [P |-> Coupling(NRows(leads[l].H), NRows(Hs)), bundle |-> leads[l].out.bundle[1]]])

\* the assembly using up the incoming modes of the bundles it was passed
SolveScatteringInPlace(Hs) ==
    /\ phase = "modes"
    /\ Len(leads) >= 1
    /\ AllSolved
    /\ phase' = "done"
    /\ region' = Hs
    /\ outcome' = solve_scattering(Hs, Attached(Hs), energy)
    /\ leads' = Vec([l \in 1..Len(leads) |->
                        [leads[l] EXCEPT !.out.bundle[1].prop_in = <<>>]])
    /\ UNCHANGED <<energy, calls, built, fill>>

SolveScattering(Hs) ==
    /\ phase = "modes"
    /\ Len(leads) >= 1
    /\ AllSolved
    /\ phase' = "done"
    /\ region' = Hs
    /\ outcome' = solve_scattering(Hs, Attached(Hs), energy)
    /\ UNCHANGED <<energy, leads, calls, built, fill>>

\* the caller starts over, after the assembly or after a failed solve_modes
Reset ==
    /\ phase = "done" \/ (phase = "modes" /\ ~AllSolved)
    /\ phase' = "idle"
    /\ energy' = 0
    /\ leads' = <<>>
    /\ region' = <<>>
    /\ outcome' = NoOutcome
    /\ UNCHANGED <<calls, built, fill>>

Next ==
    \/ \E E \in Energies : Begin(E)
    \/ \E l \in 1..Len(LeadCatalog), s \in 1..MaxSqrtNorm, shear \in 0..MaxShear :
           SolveModes(l, s, shear)
    \/ \E k \in 1..Len(RegionCatalog) : SolveScattering(RegionCatalog[k])
    \/ Reset

Spec == Init /\ [][Next]_vars

(***************************************************************************)
(* Calls made side by side: each worker takes a call (a mode solve for a   *)
(* lead and an energy, or an assembly for a region and an energy), runs it *)
(* and hands its result back, in any interleaving with the other workers.  *)
(***************************************************************************)
\* the calls: [kind, lead, region, E, shear], the shear being the basis the
\* eigensolver gives for this input
Jobs ==
    {[kind |-> "modes", lead |-> l, region |-> 0, E |-> E, shear |-> shear] :
        l \in {1, 7, 10}, E \in {-1, 4}, shear \in {0, 1}}
    \cup {[kind |-> "scattering", lead |-> 1, region |-> k, E |-> E, shear |-> 0] :
        k \in {1, 4}, E \in {-1, 0, 4}}

\* the results of the call j made alone: solve_modes for its lead, and for an
\* assembly solve_scattering of its region with the bundle of that lead
RunAlone(j) ==
    IF j.kind = "modes" THEN Lookup(j.lead, j.E, 1, j.shear)
    ELSE {solve_scattering(RegionCatalog[j.region],
                           <<[P |-> Coupling(NRows(LeadCatalog[j.lead].H),
                                             NRows(RegionCatalog[j.region])),
                              bundle |-> out.bundle[1]]>>, j.E) :
             out \in Lookup(j.lead, j.E, 1, j.shear)}

\* inputs read from whatever call another worker is in, when there is one
InputOfShared(w) ==
    IF \E u \in Workers \ {w} : calls[u].pc = "running"
    THEN calls[CHOOSE u \in Workers \ {w} : calls[u].pc = "running"].job
    ELSE calls[w].job
\* the inputs the call of worker w reads: its own arguments
InputOf(w) == calls[w].job

Start(w, j) ==
    /\ calls[w].pc = "idle"
    /\ RunAlone(j) # {}
    /\ calls' = [calls EXCEPT ![w] = [pc |-> "running", job |-> j, result |-> <<>>]]
    /\ UNCHANGED <<phase, energy, leads, region, outcome, built, fill>>

Finish(w) ==
    /\ calls[w].pc = "running"
    /\ \E r \in RunAlone(InputOf(w)) :
           calls' = [calls EXCEPT ![w].pc = "done", ![w].result = <<r>>]
    /\ UNCHANGED <<phase, energy, leads, region, outcome, built, fill>>

\* the caller takes the result; the worker is free again
Collect(w) ==
    /\ calls[w].pc = "done"
    /\ calls' = [calls EXCEPT ![w] = NoCalls[w]]
    /\ UNCHANGED <<phase, energy, leads, region, outcome, built, fill>>

NextParallel ==
    \/ \E w \in Workers, j \in Jobs : Start(w, j)
    \/ \E w \in Workers : Finish(w)
    \/ \E w \in Workers : Collect(w)

SpecParallel == Init /\ [][NextParallel]_vars

(***************************************************************************)
(* solve_modes with a time-reversal operator T = U K (K the complex        *)
(* conjugation): the incoming propagating modes are not solved for but     *)
(* obtained from the outgoing ones by T.                                   *)
(***************************************************************************)
\* the unitary parts U supplied: K alone, and i sigma_y K for one spin
TimeReversals == << M1(1), M2(1, 0, 0, 1), M2(0, 1, -1, 0) >>

\* T is a symmetry of the lead: U H^* U^dagger = H and U V^* U^dagger = V
IsTimeReversalOf(U, H, V) ==
    LET conj(M) == Mat([i \in 1..NRows(M) |-> [j \in 1..NCols(M) |-> CConj(M[i][j])]])
        reversed(M) == MatMul(U, MatMul(conj(M), Dagger(U)))
    IN  /\ DimensionsAgree(H, V) /\ NRows(U) = NRows(H)
        /\ reversed(H) = H /\ reversed(V) = V

\* T applied to a wavefunction: U phi^*
TimeReversedPhi(U, phi) == MatVec(U, Vec([k \in 1..Len(phi) |-> CConj(phi[k])]))
\* the image with lambda left as it is
TimeReversedSameLambda(p, U, m) ==
    [lam |-> m.lam, kind |-> m.kind, grazing |-> m.grazing, dir |-> "incoming",
     phi |-> TimeReversedPhi(U, m.phi),
     phibar |-> MatVec(Dagger(p.B), TimeReversedPhi(U, m.phi)),
     xibar |-> VScale(m.lam, MatVec(Dagger(p.A), TimeReversedPhi(U, m.phi)))]
\* the image of mode m under T: lambda -> lambda^* (k -> -k), phi -> U phi^*,
\* phibar = B^dagger phi and xibar = lambda A^dagger phi of the image
TimeReversed(p, U, m) ==
    [lam |-> CConj(m.lam), kind |-> m.kind, grazing |-> m.grazing, dir |-> "incoming",
     phi |-> TimeReversedPhi(U, m.phi),
     phibar |-> MatVec(Dagger(p.B), TimeReversedPhi(U, m.phi)),
     xibar |-> VScale(CConj(m.lam), MatVec(Dagger(p.A), TimeReversedPhi(U, m.phi)))]
\* the result out of solve_modes for problem p, its incoming modes replaced
\* by the images of the outgoing ones
Reconciled(p, U, out) ==
    IF out.err # "none" THEN out
    ELSE [out EXCEPT !.bundle[1].prop_in =
             Vec([k \in 1..Len(out.bundle[1].prop_out) |->
                     TimeReversed(p, U, out.bundle[1].prop_out[k])])]

\* one call solve_modes(H_l, V_l, E, T) for lead l of the catalog
SolveWithSymmetry(l, E, s, shear, U) ==
    /\ built = <<>>
    /\ IsTimeReversalOf(U, LeadCatalog[l].H, LeadCatalog[l].V)
    /\ \E out \in Lookup(l, E, s, shear) :
           built' = <<[H |-> LeadCatalog[l].H, V |-> LeadCatalog[l].V, E |-> E,
                       T |-> <<U>>,
                       p |-> EigenProblem(LeadCatalog[l].H, LeadCatalog[l].V, E, s),
                       out |-> <<Reconciled(EigenProblem(LeadCatalog[l].H,
                                                         LeadCatalog[l].V, E, s),
                                            U, out)>>]>>
    /\ UNCHANGED <<phase, energy, leads, region, outcome, calls, fill>>

\* the leads of the catalog and a dimer whose stabilized right-hand matrix is
\* singular (hopping from the second site of a cell to the first of the next)
BuildCatalog == LeadCatalog \o << [H |-> M2(4, 0, 0, 3), V |-> M2(0, 4, 0, 0)] >>

\* steps 1 and 2 of one call solve_modes(H_l, V_l, E): the eigenproblem
Build(l, E, s) ==
    /\ built = <<>>
    /\ HasExactFactors(BuildCatalog[l].H, BuildCatalog[l].V)
    /\ built' = <<[H |-> BuildCatalog[l].H, V |-> BuildCatalog[l].V, E |-> E, T |-> <<>>,
                   p |-> EigenProblem(BuildCatalog[l].H, BuildCatalog[l].V, E, s),
                   out |-> <<>>]>>
    /\ UNCHANGED <<phase, energy, leads, region, outcome, calls, fill>>

\* the caller takes the result of the call
Return ==
    /\ built # <<>>
    /\ built' = <<>>
    /\ UNCHANGED <<phase, energy, leads, region, outcome, calls, fill>>

NextModes ==
    \/ \E l \in 1..Len(LeadCatalog), E \in Energies, s \in 1..MaxSqrtNorm,
          shear \in 0..MaxShear, k \in 1..Len(TimeReversals) :
           SolveWithSymmetry(l, E, s, shear, TimeReversals[k])
    \/ \E l \in 1..Len(BuildCatalog), E \in Energies, s \in 1..MaxSqrtNorm : Build(l, E, s)
    \/ Return

SpecModes == Init /\ [][NextModes]_vars

(***************************************************************************)
(* solve_modes with a conservation law and a time reversal: before any     *)
(* eigenproblem is built the Hamiltonian is transformed into a basis that  *)
(* diagonalizes the conservation law; the modes are computed for each      *)
(* block, and blocks related by the time reversal have their modes         *)
(* related by it.                                                          *)
(***************************************************************************)
MConj(M) == Mat([i \in 1..NRows(M) |-> [j \in 1..NCols(M) |-> CConj(M[i][j])]])
\* the operator M in the basis W (the columns of W): W^dagger M W
InBasis(W, M) == MatMul(Dagger(W), MatMul(M, W))
\* the unitary part of T = U K in the basis W: W^dagger U W^*
TimeReversalInBasis(W, U) == MatMul(Dagger(W), MatMul(U, MConj(W)))

\* the orthonormal bases the model holds exactly: the given one, the given
\* one reordered, and a rotated one
Bases ==
    << Ident(2), M2(0, 1, 1, 0),
       <<<<C(3, 0, 5), C(-4, 0, 5)>>, <<C(4, 0, 5), C(3, 0, 5)>>>> >>

RealLeq(x, y) == x[1] * y[3] <= y[1] * x[3]
IsDiagonalMatrix(D) ==
    \A i \in 1..NRows(D), j \in 1..NCols(D) : i # j => D[i][j] = Zero
\* W is unitary and the law is diagonal in it, its eigenvalues ascending
Diagonalizes(W, law) ==
    /\ NRows(W) = NRows(law)
    /\ MatMul(Dagger(W), W) = Ident(NRows(W))
    /\ IsDiagonalMatrix(InBasis(W, law))
    /\ \A i \in 1..NRows(law) : IsReal(InBasis(W, law)[i][i])
    /\ \A i \in 1..(NRows(law) - 1) :
           RealLeq(InBasis(W, law)[i][i], InBasis(W, law)[i + 1][i + 1])

\* the blocks of the diagonal law D from index k on: the runs of equal
\* eigenvalues
RECURSIVE BlockRanges(_, _)
BlockRanges(D, k) ==
    IF k > NRows(D) THEN <<>>
    ELSE LET last == CHOOSE j \in k..NRows(D) :
                         /\ \A i \in k..j : D[i][i] = D[k][k]
                         /\ j = NRows(D) \/ D[j + 1][j + 1] # D[k][k]
         IN  <<[lo |-> k, hi |-> last]>> \o BlockRanges(D, last + 1)
\* the rows r and columns c of M
SubBlock(M, r, c) ==
    Mat([i \in 1..(r.hi - r.lo + 1) |-> [j \in 1..(c.hi - c.lo + 1) |->
            M[r.lo + i - 1][c.lo + j - 1]]])
IsBlockDiagonal(M, ranges) ==
    \A a \in 1..Len(ranges), b \in 1..Len(ranges) :
        a # b => SubBlock(M, ranges[a], ranges[b])
                     = ZeroMat(ranges[a].hi - ranges[a].lo + 1,
                               ranges[b].hi - ranges[b].lo + 1)
\* T (its unitary part U, in the basis of the blocks) maps block a onto block b
Related(U, ranges, a, b) ==
    /\ a # b
    /\ SubBlock(U, ranges[b], ranges[a])
           # ZeroMat(ranges[b].hi - ranges[b].lo + 1, ranges[a].hi - ranges[a].lo + 1)
    /\ \A c \in 1..Len(ranges) :
           c # b => SubBlock(U, ranges[c], ranges[a])
                        = ZeroMat(ranges[c].hi - ranges[c].lo + 1,
                                  ranges[a].hi - ranges[a].lo + 1)

\* a lead with the conservation law diag(-1, 1) and the time reversal
\* i sigma_y K, given in the basis W: its first block is lead l of the
\* catalog, its second block the time reverse of the first
SymmetricLead(l, W) ==
    [H |-> InBasis(Dagger(W), <<<<LeadCatalog[l].H[1][1], Zero>>,
                                <<Zero, CConj(LeadCatalog[l].H[1][1])>>>>),
     V |-> InBasis(Dagger(W), <<<<LeadCatalog[l].V[1][1], Zero>>,
                                <<Zero, CConj(LeadCatalog[l].V[1][1])>>>>),
     conservation_law |-> InBasis(Dagger(W), M2(-1, 0, 0, 1)),
     time_reversal |-> MatMul(W, MatMul(TimeReversals[3], Transpose(W)))]
\* the chains of the catalog
Chains == {l \in 1..Len(LeadCatalog) :
               NRows(LeadCatalog[l].H) = 1 /\ NRows(LeadCatalog[l].V) = 1}
\* the leads of the catalog equal to the block (H, V)
InCatalog(H, V) ==
    {l \in 1..Len(LeadCatalog) : LeadCatalog[l].H = H /\ LeadCatalog[l].V = V}

\* the image under T of a mode of one block, in the related block (U the
\* part of T between the two): lambda -> lambda^*, phi -> U phi^*; with
\* B -> U B^* the vectors phibar and xibar are conjugated
BlockImage(U, m, dir) ==
    [lam |-> CConj(m.lam), kind |-> m.kind, grazing |-> m.grazing, dir |-> dir,
     phi |-> TimeReversedPhi(U, m.phi),
     phibar |-> Vec([k \in 1..Len(m.phibar) |-> CConj(m.phibar[k])]),
     xibar |-> Vec([k \in 1..Len(m.xibar) |-> CConj(m.xibar[k])])]
BlockImages(U, ms, dir) == Vec([k \in 1..Len(ms) |-> BlockImage(U, ms[k], dir)])
\* the modes of a block from the result out of the related block: T turns
\* outgoing into incoming propagating modes, decaying modes stay decaying
Transformed(U, out) ==
    IF out.err # "none" THEN out
    ELSE [out EXCEPT !.bundle =
             <<[n |-> out.bundle[1].n,
                B |-> MatMul(U, MConj(out.bundle[1].B)),
                prop_out |-> BlockImages(U, out.bundle[1].prop_in, "outgoing"),
                prop_in |-> BlockImages(U, out.bundle[1].prop_out, "incoming"),
                evan_out |-> BlockImages(U, out.bundle[1].evan_out, "outgoing")]>>]

\* the vector x of the rows lo..(lo + Len(x) - 1) among n rows
Embedded(x, lo, n) ==
    Vec([k \in 1..n |-> IF lo <= k /\ k < lo + Len(x) THEN x[k - lo + 1] ELSE Zero])
\* the rank of the hopping of block b, and of the blocks before b
RankOf(blk) == NCols(blk.out[1].bundle[1].B)
RECURSIVE RankBefore(_, _)
RankBefore(blocks, b) ==
    IF b = 1 THEN 0 ELSE RankBefore(blocks, b - 1) + RankOf(blocks[b - 1])
\* a mode of block b as a mode of the whole lead, in the basis it was given in
Whole(W, blocks, b, m) ==
    [m EXCEPT !.phi = MatVec(W, Embedded(m.phi, blocks[b].range.lo, NRows(W))),
              !.phibar = Embedded(m.phibar, RankBefore(blocks, b) + 1,
                                  RankBefore(blocks, Len(blocks) + 1)),
              !.xibar = Embedded(m.xibar, RankBefore(blocks, b) + 1,
                                 RankBefore(blocks, Len(blocks) + 1))]
WholeOf(W, blocks, field) ==
    Flatten(Vec([b \in 1..Len(blocks) |->
        Vec([k \in 1..Len(blocks[b].out[1].bundle[1][field]) |->
                Whole(W, blocks, b, blocks[b].out[1].bundle[1][field][k])])]))
\* B of the whole lead: the B of the blocks on the diagonal, in the given basis
WholeB(W, blocks) ==
    MatMul(W, Mat([i \in 1..NRows(W) |->
                     [j \in 1..RankBefore(blocks, Len(blocks) + 1) |->
                        LET b == CHOOSE c \in 1..Len(blocks) :
                                     blocks[c].range.lo <= i /\ i <= blocks[c].range.hi
                            col == j - RankBefore(blocks, b)
                        IN  IF 1 <= col /\ col <= RankOf(blocks[b])
                            THEN blocks[b].out[1].bundle[1].B[i - blocks[b].range.lo + 1][col]
                            ELSE Zero]]))
\* the result for the whole lead from the results of its blocks
Merged(W, blocks) ==
    IF \E b \in 1..Len(blocks) : blocks[b].out[1].err # "none"
    THEN [err |-> blocks[CHOOSE b \in 1..Len(blocks) :
                             /\ blocks[b].out[1].err # "none"
                             /\ \A c \in 1..(b - 1) : blocks[c].out[1].err = "none"].out[1].err,
          bundle |-> <<>>]
    ELSE [err |-> "none",
          bundle |-> <<[n |-> NRows(W), B |-> WholeB(W, blocks),
                        prop_out |-> WholeOf(W, blocks, "prop_out"),
                        prop_in |-> WholeOf(W, blocks, "prop_in"),
                        evan_out |-> WholeOf(W, blocks, "evan_out")]>>]

\* the call solve_modes(H_l, V_l, E, conservation_law, time_reversal) begins;
\* T = <<>> when no time reversal is supplied
CallWithSymmetries(l, w, E, s, withT) ==
    /\ built = <<>>
    /\ l \in Chains
    /\ \E shear \in 0..MaxShear : Lookup(l, E, s, shear) # {}
    /\ withT \/ InCatalog(MConj(LeadCatalog[l].H), MConj(LeadCatalog[l].V)) # {}
    /\ built' = <<[H |-> SymmetricLead(l, Bases[w]).H, V |-> SymmetricLead(l, Bases[w]).V,
                   E |-> E, s |-> s,
                   conservation_law |-> SymmetricLead(l, Bases[w]).conservation_law,
                   T |-> IF withT THEN <<SymmetricLead(l, Bases[w]).time_reversal>>
                         ELSE <<>>,
                   stage |-> "called", basis |-> <<>>, blocks |-> <<>>, log |-> <<>>,
                   out |-> <<>>]>>
    /\ UNCHANGED <<phase, energy, leads, region, outcome, calls, fill>>

\* the blocks of H_l and V_l in the basis W
BlocksIn(W, H, V, law) ==
    LET ranges == BlockRanges(InBasis(W, law), 1)
    IN  Vec([b \in 1..Len(ranges) |->
                [range |-> ranges[b],
                 H |-> SubBlock(InBasis(W, H), ranges[b], ranges[b]),
                 V |-> SubBlock(InBasis(W, V), ranges[b], ranges[b]),
                 from |-> "none", out |-> <<>>]])
\* the change to the basis that diagonalizes the conservation law
Diagonalize(w) ==
    /\ built # <<>> /\ built[1].stage = "called"
    /\ Diagonalizes(Bases[w], built[1].conservation_law)
    /\ IsBlockDiagonal(InBasis(Bases[w], built[1].H),
                       BlockRanges(InBasis(Bases[w], built[1].conservation_law), 1))
    /\ IsBlockDiagonal(InBasis(Bases[w], built[1].V),
                       BlockRanges(InBasis(Bases[w], built[1].conservation_law), 1))
    /\ built' = <<[built[1] EXCEPT
                     !.stage = "blocks", !.basis = <<Bases[w]>>,
                     !.blocks = BlocksIn(Bases[w], built[1].H, built[1].V,
                                         built[1].conservation_law),
                     !.log = Append(@, [op |-> "basis", block |-> 0,
                                        H |-> built[1].H, V |-> built[1].V])]>>
    /\ UNCHANGED <<phase, energy, leads, region, outcome, calls, fill>>

\* the blocks that T relates to block b and that have their modes
SolvedPartners(r, b) ==
    IF r.T = <<>> THEN {}
    ELSE {a \in 1..Len(r.blocks) :
             /\ r.blocks[a].out # <<>>
             /\ Related(TimeReversalInBasis(r.basis[1], r.T[1]),
                        Vec([c \in 1..Len(r.blocks) |-> r.blocks[c].range]), a, b)}

\* the eigensolve of block b, whether or not a related block has its modes
SolveBlockAgain(b, shear) ==
    /\ built # <<>> /\ built[1].stage = "blocks"
    /\ b \in 1..Len(built[1].blocks) /\ built[1].blocks[b].out = <<>>
    /\ \E l \in InCatalog(built[1].blocks[b].H, built[1].blocks[b].V) :
       \E out \in Lookup(l, built[1].E, built[1].s, shear) :
           built' = <<[built[1] EXCEPT
                         !.blocks[b].out = <<out>>, !.blocks[b].from = "eigensolve",
                         !.log = Append(@, [op |-> "eigenproblem", block |-> b,
                                            H |-> built[1].blocks[b].H,
                                            V |-> built[1].blocks[b].V])]>>
    /\ UNCHANGED <<phase, energy, leads, region, outcome, calls, fill>>
\* the eigensolve of block b, for a block none of whose related blocks has
\* its modes yet
SolveBlock(b, shear) ==
    /\ built # <<>> /\ built[1].stage = "blocks"
    /\ b \in 1..Len(built[1].blocks) /\ built[1].blocks[b].out = <<>>
    /\ SolvedPartners(built[1], b) = {}
    /\ \E l \in InCatalog(built[1].blocks[b].H, built[1].blocks[b].V) :
       \E out \in Lookup(l, built[1].E, built[1].s, shear) :
           built' = <<[built[1] EXCEPT
                         !.blocks[b].out = <<out>>, !.blocks[b].from = "eigensolve",
                         !.log = Append(@, [op |-> "eigenproblem", block |-> b,
                                            H |-> built[1].blocks[b].H,
                                            V |-> built[1].blocks[b].V])]>>
    /\ UNCHANGED <<phase, energy, leads, region, outcome, calls, fill>>

\* the modes of block b from the modes of a related block a
TransformBlock(a, b) ==
    /\ built # <<>> /\ built[1].stage = "blocks"
    /\ b \in 1..Len(built[1].blocks) /\ built[1].blocks[b].out = <<>>
    /\ a \in SolvedPartners(built[1], b)
    /\ built' = <<[built[1] EXCEPT
                     !.blocks[b].out =
                         <<Transformed(SubBlock(TimeReversalInBasis(built[1].basis[1],
                                                                    built[1].T[1]),
                                                built[1].blocks[b].range,
                                                built[1].blocks[a].range),
                                       built[1].blocks[a].out[1])>>,
                     !.blocks[b].from = "transform",
                     !.log = Append(@, [op |-> "transform", block |-> b,
                                        H |-> built[1].blocks[a].H,
                                        V |-> built[1].blocks[a].V])]>>
    /\ UNCHANGED <<phase, energy, leads, region, outcome, calls, fill>>

\* every block has its modes: the result for the whole lead
Merge ==
    /\ built # <<>> /\ built[1].stage = "blocks"
    /\ \A b \in 1..Len(built[1].blocks) : built[1].blocks[b].out # <<>>
    /\ built' = <<[built[1] EXCEPT
                     !.stage = "done",
                     !.out = <<Merged(built[1].basis[1], built[1].blocks)>>]>>
    /\ UNCHANGED <<phase, energy, leads, region, outcome, calls, fill>>

\* the caller takes the result
ReturnModes ==
    /\ built # <<>> /\ built[1].stage = "done"
    /\ built' = <<>>
    /\ UNCHANGED <<phase, energy, leads, region, outcome, calls, fill>>

MaxBlocks == 2

NextBlocks ==
    \/ \E l \in 1..Len(LeadCatalog), w \in 1..Len(Bases), E \in Energies,
          s \in 1..MaxSqrtNorm, withT \in BOOLEAN : CallWithSymmetries(l, w, E, s, withT)
    \/ \E w \in 1..Len(Bases) : Diagonalize(w)
    \/ \E b \in 1..MaxBlocks, shear \in 0..MaxShear : SolveBlock(b, shear)
    \/ \E a \in 1..MaxBlocks, b \in 1..MaxBlocks : TransformBlock(a, b)
    \/ Merge
    \/ ReturnModes

SpecBlocks == Init /\ [][NextBlocks]_vars

(***************************************************************************)
(* The example system: a scattering region (a quarter of a ring) and two   *)
(* leads, each builder filled from a start site over the sites of its      *)
(* shape, site by site along the nearest-neighbour hoppings.               *)
(***************************************************************************)
sigma_0 == M2(1, 0, 0, 1)
sigma_y == <<<<Zero, CNeg(ImagI)>>, <<ImagI, Zero>>>>
sigma_z == M2(1, 0, 0, -1)
\* np.kron
Kron(A, B) ==
    Mat([i \in 1..(NRows(A) * NRows(B)) |-> [j \in 1..(NCols(A) * NCols(B)) |->
            CMul(A[((i - 1) \div NRows(B)) + 1][((j - 1) \div NCols(B)) + 1],
                 B[((i - 1) % NRows(B)) + 1][((j - 1) % NCols(B)) + 1])]])

\* the shape of the scattering region, on the tag (x, y) of a site
scattering_region_unshifted(site) ==
    /\ 30 * 30 < site[1] * site[1] + site[2] * site[2]
    /\ site[1] * site[1] + site[2] * site[2] < 50 * 50
    /\ site[1] >= 0 /\ site[2] <= 0
scattering_region(site) ==
    LET x == site[1]
        y == site[2] - 50
    IN  /\ 30 * 30 < x * x + y * y /\ x * x + y * y < 50 * 50
        /\ x >= 0 /\ y <= 0

\* lead_y with the conservation law on the other factor
lead_y_orbital ==
    [symmetry |-> <<0, 1>>,
     time_reversal |-> Kron(MScale(ImagI, sigma_y), sigma_0),
     conservation_law |-> Kron(sigma_0, MScale(Re(-1), sigma_z)),
     start |-> <<35, 0>>]
lead_x ==
    [symmetry |-> <<-1, 0>>,
     time_reversal |-> Kron(MScale(ImagI, sigma_y), sigma_0),
     conservation_law |-> Kron(MScale(Re(-1), sigma_z), sigma_0),
     start |-> <<0, 1>>]
lead_y ==
    [symmetry |-> <<0, 1>>,
     time_reversal |-> Kron(MScale(ImagI, sigma_y), sigma_0),
     conservation_law |-> Kron(MScale(Re(-1), sigma_z), sigma_0),
     start |-> <<35, 0>>]

Builders == {"syst", "lead_x", "lead_y"}
\* the lead cells kept on each side of the start cell of a lead
MaxCell == 1
\* the shape given to fill for builder b; a lead, which repeats along its
\* symmetry, is filled over the cells -MaxCell..MaxCell
Shape(b, site) ==
    IF b = "syst" THEN scattering_region(site)
    ELSE IF b = "lead_x"
         THEN 1 <= site[2] /\ site[2] <= 20 /\ -MaxCell <= site[1] /\ site[1] <= MaxCell
         ELSE 30 <= site[1] /\ site[1] <= 49 /\ -MaxCell <= site[2] /\ site[2] <= MaxCell
StartOf(b) ==
    IF b = "syst" THEN <<0, 10>> ELSE IF b = "lead_x" THEN lead_x.start ELSE lead_y.start
\* the sites a hopping of the model leads to
Neighbours(site) ==
    {<<site[1] + 1, site[2]>>, <<site[1] - 1, site[2]>>,
     <<site[1], site[2] + 1>>, <<site[1], site[2] - 1>>}

\* fill(template, shape, start): the start site is added first
Fill(b) ==
    /\ fill = NoFill
    /\ Shape(b, StartOf(b))
    /\ fill' = [builder |-> b, site |-> StartOf(b)]
    /\ UNCHANGED <<phase, energy, leads, region, outcome, calls, built>>

\* then every neighbour of a site added that is in the shape
Grow(next) ==
    /\ fill.builder \in Builders
    /\ next \in Neighbours(fill.site)
    /\ Shape(fill.builder, next)
    /\ fill' = [fill EXCEPT !.site = next]
    /\ UNCHANGED <<phase, energy, leads, region, outcome, calls, built>>

\* the fill of the builder is over
Filled ==
    /\ fill.builder \in Builders
    /\ fill' = NoFill
    /\ UNCHANGED <<phase, energy, leads, region, outcome, calls, built>>

NextExample ==
    \/ \E b \in Builders : Fill(b)
    \/ \E next \in Neighbours(fill.site) : Grow(next)
    \/ Filled

SpecExample == Init /\ [][NextExample]_vars

(***************************************************************************)
(* Properties of the results held in a state.                              *)
(***************************************************************************)
\* the leads for which solve_modes returned a ModeBundle
Returned == {l \in 1..Len(leads) : leads[l].out.err = "none"}
BundleOf(l) == leads[l].out.bundle[1]
PropagatingOf(l) == BundleOf(l).prop_out \o BundleOf(l).prop_in
ModesOf(l) == PropagatingOf(l) \o BundleOf(l).evan_out
IsZeroVec(x) == \A i \in 1..Len(x) : x[i] = Zero
\* V phi + lambda (H - E) phi + lambda^2 V^dagger phi = 0 for mode m of lead l
SatisfiesRelation(l, m) ==
    IsZeroVec(QuadraticResidual(leads[l].H, leads[l].V, energy, m.lam, m.phi))
\* the velocity of mode m of lead l, from its wavefunction as returned
VelocityOf(l, m) == Velocity(leads[l].V, m.lam, m.phi)
SameSize(l) ==
    /\ Len(leads[l].H) = Len(leads[l].V)
    /\ \A i \in 1..Len(leads[l].H) :
          Len(leads[l].H[i]) = Len(leads[l].H) /\ Len(leads[l].V[i]) = Len(leads[l].H)
NoPropagating(l) == l \in Returned /\ PropagatingOf(l) = <<>>
HoppingIsZero(l) ==
    SameSize(l) /\ \A i \in 1..Len(leads[l].V) : IsZeroVec(leads[l].V[i])
Assembled == phase = "done"
EmptyS ==
    /\ outcome.err = "none"
    /\ outcome.result[1].rows = 0 /\ outcome.result[1].cols = 0
    /\ outcome.result[1].S = <<>>

\* C1: every mode of every returned ModeBundle, propagating or evanescent,
\* satisfies the quadratic relation V phi + lambda (H - E) phi + lambda^2 V^dagger phi = 0.
C1_EveryModeSatisfiesRelation ==
    \A l \in Returned : \A k \in 1..Len(ModesOf(l)) : SatisfiesRelation(l, ModesOf(l)[k])

\* C1 (amended): every propagating mode of a returned ModeBundle satisfies the
\* quadratic relation, and so does the first vector of the evanescent part; the
\* later evanescent vectors are Schur vectors, which need not.
C1_PropagatingModesSatisfyRelation ==
    \A l \in Returned :
        /\ \A k \in 1..Len(PropagatingOf(l)) : SatisfiesRelation(l, PropagatingOf(l)[k])
        /\ BundleOf(l).evan_out # <<>> => SatisfiesRelation(l, BundleOf(l).evan_out[1])

\* a bundle on each path with a propagating mode, and one with two evanescent vectors
C1_Witness ==
    /\ Len(leads) = 2
    /\ Returned = {1, 2}
    /\ leads[1].out.path = "singular" /\ PropagatingOf(1) # <<>>
    /\ Len(BundleOf(2).evan_out) = 2
    /\ ~SatisfiesRelation(2, BundleOf(2).evan_out[2])

C4_UnitVelocity ==
    \A l \in Returned : \A k \in 1..Len(PropagatingOf(l)) :
        VelocityOf(l, PropagatingOf(l)[k]) \in {One, Re(-1)}

\* C5: a propagating mode with v > 0 is in Phi_+ and one with v < 0 is in
\* Phi_p-; none is in both.
C5_TaggedBySignOfVelocity ==
    \A l \in Returned :
        /\ \A k \in 1..Len(BundleOf(l).prop_out) :
              /\ BundleOf(l).prop_out[k].dir = "outgoing"
              /\ IsReal(VelocityOf(l, BundleOf(l).prop_out[k]))
              /\ RLess(Zero, VelocityOf(l, BundleOf(l).prop_out[k]))
        /\ \A k \in 1..Len(BundleOf(l).prop_in) :
              /\ BundleOf(l).prop_in[k].dir = "incoming"
              /\ IsReal(VelocityOf(l, BundleOf(l).prop_in[k]))
              /\ RLess(VelocityOf(l, BundleOf(l).prop_in[k]), Zero)
        /\ \A j \in 1..Len(BundleOf(l).prop_out), k \in 1..Len(BundleOf(l).prop_in) :
              BundleOf(l).prop_out[j] # BundleOf(l).prop_in[k]

\* C6: solve_modes fails with DimensionMismatch, and returns no ModeBundle,
\* when H_l and V_l differ in size, and never fails so when they are of one size.
C6_DimensionMismatchIffSizesDiffer ==
    \A l \in 1..Len(leads) :
        /\ leads[l].out.err = "DimensionMismatch" <=> ~SameSize(l)
        /\ ~SameSize(l) => leads[l].out.bundle = <<>>

\* solve_modes has been called with matrices of different sizes and with
\* matrices of one size
C6_Witness ==
    /\ Len(leads) = 2
    /\ SameSize(1) /\ leads[1].out.err = "none"
    /\ ~SameSize(2) /\ leads[2].out.err = "DimensionMismatch"

\* C7: for a rank-deficient V_l solve_modes takes the SVD path, inverts neither
\* V_l nor a factor of it, and fails with SingularLeadError or not at all.
C7_RankDeficientTakesSvdPath ==
    \A l \in 1..Len(leads) :
        SameSize(l) /\ Rank(leads[l].V) < NRows(leads[l].V) =>
            /\ leads[l].out.err \in {"none", "SingularLeadError"}
            /\ leads[l].out.err = "none" => leads[l].out.path = "singular"
            /\ leads[l].out.inverted \subseteq {"Hbar", "Rhs"}

\* solve_modes has returned for a V_l of rank 0 and for one of rank 1 in a cell
\* of two sites
C7_Witness ==
    /\ Len(leads) = 2
    /\ Returned = {1, 2}
    /\ NRows(leads[1].V) = 2 /\ Rank(leads[1].V) = 0
    /\ NRows(leads[2].V) = 2 /\ Rank(leads[2].V) = 1
    /\ leads[2].out.inverted = {"Hbar", "Rhs"}

\* the chain H_l = [2t], V_l = [t] with t real and not zero
IsChain(l) ==
    /\ NRows(leads[l].H) = 1 /\ SameSize(l)
    /\ IsReal(leads[l].V[1][1]) /\ leads[l].V[1][1] # Zero
    /\ leads[l].H[1][1] = CMul(Re(2), leads[l].V[1][1])
\* E / t
BandPosition(l) == CDiv(Re(energy), leads[l].V[1][1])
\* a chain at E outside the band [0, 4t]: a lead in a gap
OutOfBandChain(l) ==
    IsChain(l) /\ (RLess(BandPosition(l), Zero) \/ RLess(Re(4), BandPosition(l)))
\* a chain at E inside (0, 4t)
InBandChain(l) == IsChain(l) /\ RLess(Zero, BandPosition(l)) /\ RLess(BandPosition(l), Re(4))

\* C8: a lead without propagating modes is no error, and solve_scattering over
\* leads that all have none completes and returns S of dimensions 0 x 0.
C8_NoPropagatingModesGivesEmptyS ==
    /\ \A l \in 1..Len(leads) : OutOfBandChain(l) => l \in Returned /\ NoPropagating(l)
    /\ Assembled /\ (\A l \in 1..Len(leads) : NoPropagating(l)) => EmptyS

\* C8 (amended): a lead without propagating modes is no error, and
\* solve_scattering over leads that all have none returns S of dimensions
\* 0 x 0 unless the block matrix is singular at E, which it reports as
\* SingularAssemblyMatrix.
C8_EmptySUnlessSingular ==
    /\ \A l \in 1..Len(leads) : OutOfBandChain(l) => l \in Returned /\ NoPropagating(l)
    /\ Assembled /\ (\A l \in 1..Len(leads) : NoPropagating(l)) =>
          IF Det(BlockMatrix(region, Attached(region), energy)) = Zero
          THEN outcome.err = "SingularAssemblyMatrix" /\ outcome.result = <<>>
          ELSE EmptyS

\* solve_scattering has returned the empty S for two leads that have evanescent
\* modes only
C8_Witness ==
    /\ Assembled
    /\ Len(leads) = 2
    /\ OutOfBandChain(1)
    /\ \A l \in 1..2 : NoPropagating(l) /\ BundleOf(l).evan_out # <<>>
    /\ EmptyS
    /\ Len(outcome.result[1].Q) = 2

\* C9: for V_l = 0 solve_modes succeeds at every E, with no propagating mode
\* and every mode evanescent, and solve_scattering returns S of dimensions 0 x 0.
C9_ZeroHoppingAlwaysSucceeds ==
    /\ \A l \in 1..Len(leads) :
          HoppingIsZero(l) =>
              /\ l \in Returned
              /\ PropagatingOf(l) = <<>>
              /\ \A k \in 1..Len(ModesOf(l)) : ModesOf(l)[k].kind = "evanescent"
    /\ Assembled /\ (\A l \in 1..Len(leads) : HoppingIsZero(l)) => EmptyS

\* C9 (amended): for V_l = 0 solve_modes fails with SingularLeadError when E
\* is an eigenvalue of H_l and otherwise returns a ModeBundle without any
\* mode; solve_scattering over such leads reports SingularAssemblyMatrix when E
\* is an eigenvalue of H_s and otherwise returns S of dimensions 0 x 0.
C9_ZeroHoppingSucceedsOffSpectrum ==
    /\ \A l \in 1..Len(leads) :
          HoppingIsZero(l) =>
              IF Det(Shifted(leads[l].H, energy)) = Zero
              THEN leads[l].out.err = "SingularLeadError" /\ leads[l].out.bundle = <<>>
              ELSE l \in Returned /\ ModesOf(l) = <<>>
    /\ Assembled /\ (\A l \in 1..Len(leads) : HoppingIsZero(l)) =>
          IF Det(Shifted(region, energy)) = Zero
          THEN outcome.err = "SingularAssemblyMatrix" /\ outcome.result = <<>>
          ELSE EmptyS

\* solve_scattering has returned the empty S for two leads with V_l = 0
C9_Witness ==
    /\ Assembled
    /\ Len(leads) = 2
    /\ \A l \in 1..2 : HoppingIsZero(l) /\ l \in Returned
    /\ NRows(leads[1].H) # NRows(leads[2].H)
    /\ EmptyS

\* C10: for the chain H_l = [2t], V_l = [t] and E inside the band solve_modes
\* returns one incoming and one outgoing propagating mode.
C10_ChainHasOneModeEachWay ==
    \A l \in 1..Len(leads) :
        InBandChain(l) =>
            /\ l \in Returned
            /\ Len(BundleOf(l).prop_out) = 1
            /\ Len(BundleOf(l).prop_in) = 1

\* chains with t > 0 and with t < 0 solved inside their bands
C10_Witness ==
    \E l \in 1..Len(leads) :
        /\ InBandChain(l)
        /\ Len(BundleOf(l).prop_out) = 1 /\ Len(BundleOf(l).prop_in) = 1
        /\ BundleOf(l).prop_out[1].lam \notin {ImagI, CNeg(ImagI)}

\* the outgoing modes of all leads, in the order of the rows of Q_+
AllOutgoing == Flatten(Vec([l \in 1..Len(leads) |-> Outgoing(BundleOf(l))]))
\* the incoming propagating modes of all leads, in the order of the columns
AllIncoming == Flatten(Vec([l \in 1..Len(leads) |-> BundleOf(l).prop_in]))
\* solve_scattering has returned Psi_s, Q_+ and S
HasResult == Assembled /\ outcome.err = "none"
ResultOf == outcome.result[1]

\* C11: S is the submatrix of Q_+ made of the rows of the propagating outgoing
\* modes, entry by entry, with a column for each incoming channel and no row
\* of an evanescent mode.
C11_SIsPropagatingRowsOfQ ==
    HasResult =>
        /\ Len(ResultOf.Q) = Len(AllOutgoing)
        /\ ResultOf.S = Flatten(Vec([i \in 1..Len(AllOutgoing) |->
                            IF AllOutgoing[i].kind = "propagating"
                            THEN <<ResultOf.Q[i]>> ELSE <<>>]))
        /\ \A i \in 1..Len(ResultOf.Q) : Len(ResultOf.Q[i]) = Len(AllIncoming)
        /\ ResultOf.rows = Len(ResultOf.S) /\ ResultOf.cols = Len(AllIncoming)

\* S has been cut from a Q_+ whose first row belongs to an evanescent mode
C11_Witness ==
    /\ HasResult
    /\ Len(leads) = 2
    /\ Len(AllOutgoing) >= 2
    /\ AllOutgoing[1].kind = "evanescent"
    /\ AllOutgoing[Len(AllOutgoing)].kind = "propagating"
    /\ ResultOf.rows >= 1 /\ ResultOf.cols >= 1
    /\ Len(ResultOf.Q) > ResultOf.rows
    /\ \E j \in 1..ResultOf.cols : ResultOf.S[1][j] # Zero

\* the block matrix of the assembly held in the state is singular
BlockIsSingular ==
    \/ NRows(BlockMatrix(region, Attached(region), energy))
           # NCols(BlockMatrix(region, Attached(region), energy))
    \/ Det(BlockMatrix(region, Attached(region), energy)) = Zero

\* C12: solve_scattering reports SingularAssemblyMatrix exactly when the block
\* matrix is singular at E, then returns no Psi_s, Q_+ or S, and the energy of
\* its outcome is the E it was called with.
C12_SingularAssemblyReported ==
    Assembled =>
        /\ outcome.energy = energy
        /\ outcome.err \in {"none", "SingularAssemblyMatrix"}
        /\ outcome.err = "SingularAssemblyMatrix" <=> BlockIsSingular
        /\ outcome.err = "SingularAssemblyMatrix" => outcome.result = <<>>
        /\ outcome.err = "none" => Len(outcome.result) = 1

\* a singular block matrix has been reported at an energy other than 0, for a
\* region bound to a lead by evanescent modes
C12_Witness ==
    /\ Assembled
    /\ outcome.err = "SingularAssemblyMatrix"
    /\ energy # 0 /\ outcome.energy = energy
    /\ \E l \in 1..Len(leads) : BundleOf(l).evan_out # <<>>

\* H_l - E + i U S U^dagger + i W S W^dagger for lead l, from the singular
\* value decomposition of V_l
ShiftedOperator(l) ==
    MAdd(Shifted(leads[l].H, energy),
         MScale(ImagI, MAdd(MulDag(FactorSvd(leads[l].V).A, FactorSvd(leads[l].V).A),
                            MulDag(FactorSvd(leads[l].V).B, FactorSvd(leads[l].V).B))))

\* C13: on the SVD path solve_modes fails with SingularLeadError exactly when
\* the shifted operator is singular, and then returns no ModeBundle, not even
\* a partial one; no assembly is made over a lead that failed.
C13_SingularLeadSurfaced ==
    /\ \A l \in 1..Len(leads) :
          SameSize(l) /\ Rank(leads[l].V) < NRows(leads[l].V) =>
              /\ leads[l].out.err = "SingularLeadError"
                    <=> Rank(ShiftedOperator(l)) < NRows(leads[l].H)
              /\ leads[l].out.err = "SingularLeadError" => leads[l].out.bundle = <<>>
    /\ \A l \in 1..Len(leads) :
          leads[l].out.err # "none" => phase = "modes" /\ l = Len(leads) /\ outcome = NoOutcome

\* solve_modes has failed with SingularLeadError for a lead with V_l # 0, after
\* another lead was solved at this energy
C13_Witness ==
    /\ Len(leads) = 2
    /\ leads[1].out.err = "none"
    /\ leads[2].out.err = "SingularLeadError"
    /\ Rank(leads[2].V) = 1
    /\ Det(Shifted(leads[2].H, energy)) = Zero

\* every result solve_modes can give for the inputs of lead l at the energy of
\* the state, over the choices the source leaves open
ResultsAlone(l) ==
    UNION {Lookup(c, energy, s, shear) :
              c \in {d \in 1..Len(LeadCatalog) :
                        LeadCatalog[d].H = leads[l].H /\ LeadCatalog[d].V = leads[l].V},
              s \in 1..MaxSqrtNorm, shear \in 0..MaxShear}

\* what the open choices (the norm, the eigensolver's basis) leave alone in a
\* result: the error, the path, the tag and the matrices inverted
Signature(out) ==
    [err |-> out.err, path |-> out.path, tag |-> out.tag, inverted |-> out.inverted]

Done == {w \in Workers : calls[w].pc = "done"}

WithT == built # <<>> /\ built[1].T # <<>> /\ built[1].out # <<>> /\ built[1].out[1].err = "none"
\* x = c y for a number c of modulus one
SameUpToPhase(x, y) ==
    /\ Len(x) = Len(y)
    /\ \A i, j \in 1..Len(x) : CMul(x[i], y[j]) = CMul(x[j], y[i])
    /\ Inner(x, x) = Inner(y, y)
\* m is a propagating mode of the lead: |lambda| = 1, it satisfies the
\* quadratic relation at its lambda, and (phibar, xibar) solves the eigenproblem
IsModeOfLead(m) ==
    /\ OnUnitCircle(m.lam)
    /\ IsZeroVec(QuadraticResidual(built[1].H, built[1].V, built[1].E, m.lam, m.phi))
    /\ MatVec(built[1].p.L, m.phibar \o m.xibar)
          = VScale(CInv(m.lam), MatVec(built[1].p.R, m.phibar \o m.xibar))
\* T m, for the outgoing mode m, is the incoming mode t up to a phase: at
\* lambda^* (the momentum -k) and with the velocity reversed
IsImageOf(t, m) ==
    /\ t.lam = CConj(m.lam)
    /\ SameUpToPhase(t.phi, TimeReversedPhi(built[1].T[1], m.phi))
    /\ Velocity(built[1].V, t.lam, t.phi) = CNeg(Velocity(built[1].V, m.lam, m.phi))

IsUnitary(S) == MatMul(Dagger(S), S) = Ident(NCols(S))
\* the scattering matrix of a state with open channels
OpenChannels == HasResult /\ ResultOf.rows >= 1 /\ ResultOf.cols >= 1

\* C17: for Hermitian H_s and H_l and an energy inside the propagating band,
\* the S returned by solve_scattering is unitary, S^dagger S = 1.
C17_SIsUnitary == OpenChannels => IsUnitary(ResultOf.S)

\* where every propagating mode has unit velocity and the tag of its sign, S
\* is unitary
UnitaryWhenNormalized ==
    OpenChannels /\ C4_UnitVelocity /\ C5_TaggedBySignOfVelocity => IsUnitary(ResultOf.S)

\* a call with H_l and V_l of one size, its eigenproblem built
Built == built # <<>> /\ DimensionsAgree(built[1].H, built[1].V)
FullRank(M) == Rank(M) = NRows(M)
\* A B^dagger = V_l with B a multiple of the identity
ScalarFactorization(q) ==
    /\ MulDag(q.p.A, q.p.B) = q.V
    /\ \A i, j \in 1..NRows(q.V) : q.p.B[i][j] = IF i = j THEN q.p.B[1][1] ELSE Zero
\* A B^dagger = V_l with A and B of rank(V_l) columns, orthogonal and of the
\* norms sqrt(S)
SvdFactorization(q) ==
    /\ MulDag(q.p.A, q.p.B) = q.V
    /\ NCols(q.p.A) = Rank(q.V) /\ NCols(q.p.B) = Rank(q.V)
    /\ DagMul(q.p.A, q.p.A) = DagMul(q.p.B, q.p.B)
    /\ \A i, j \in 1..NCols(q.p.A) : i # j => DagMul(q.p.A, q.p.A)[i][j] = Zero

\* C18: solve_modes takes the non-singular path (scalar factorization,
\* ordinary eigenproblem) exactly when V_l is invertible, and the SVD path in
\* every other case; one path only runs in a call.
C18_OnePathByInvertibility ==
    Built =>
        IF FullRank(built[1].V)
        THEN /\ built[1].p.err = "none" /\ built[1].p.path = "nonsingular"
             /\ built[1].p.tag = "standard" /\ built[1].p.R = Ident(2 * NRows(built[1].V))
             /\ ScalarFactorization(built[1])
             /\ built[1].p.Hinv = <<>> /\ built[1].p.inverted = {"A", "Bdagger"}
        ELSE \/ /\ built[1].p.err = "none" /\ built[1].p.path = "singular"
                /\ SvdFactorization(built[1])
                /\ built[1].p.Hinv # <<>>
                /\ "Hbar" \in built[1].p.inverted
                /\ built[1].p.inverted \cap {"A", "Bdagger"} = {}
             \/ /\ built[1].p.err = "SingularLeadError" /\ built[1].p.path = "none"
                /\ built[1].p.inverted = {}

\* the eigenproblem of a lead with V_l of rank one, on the SVD path
C18_Witness ==
    /\ Built /\ built[1].T = <<>>
    /\ NRows(built[1].V) = 2 /\ Rank(built[1].V) = 1
    /\ built[1].p.path = "singular"

\* a call on the SVD path, its eigenproblem built
OnSvdPath == Built /\ built[1].p.err = "none" /\ built[1].p.path = "singular"
\* the two block matrices of the stabilized problem of the call
LhsOf(q) == StabilizedLhs(q.p.A, q.p.B, q.p.Hinv)
RhsOf(q) == StabilizedRhs(q.p.A, q.p.B, q.p.Hinv)
\* the matrices a call inverted, by their names
InvertedOf(q) ==
    [A |-> q.p.A, Bdagger |-> q.p.B, Rhs |-> RhsOf(q),
     Hbar |-> Hbar(q.H, q.E, q.p.A, q.p.B)]

\* C19: on the SVD path the eigensolve step gives a standard eigenproblem (the
\* inverse of the right-hand block matrix applied) exactly when that matrix is
\* invertible, and the generalized problem of the two block matrices
\* otherwise; every matrix a call inverted is invertible.
C19_StandardIffRhsInvertible ==
    /\ OnSvdPath =>
          IF FullRank(RhsOf(built[1]))
          THEN /\ built[1].p.tag = "standard"
               /\ built[1].p.R = Ident(NRows(RhsOf(built[1])))
               /\ MatMul(RhsOf(built[1]), built[1].p.L) = LhsOf(built[1])
               /\ "Rhs" \in built[1].p.inverted
          ELSE /\ built[1].p.tag = "generalized"
               /\ built[1].p.L = LhsOf(built[1]) /\ built[1].p.R = RhsOf(built[1])
               /\ "Rhs" \notin built[1].p.inverted
    /\ Built => \A name \in built[1].p.inverted : FullRank(InvertedOf(built[1])[name])

\* the dimer at an energy of its band: the right-hand block matrix is singular
\* and the problem is left generalized
C19_Witness ==
    /\ OnSvdPath
    /\ built[1].p.tag = "generalized"
    /\ ~FullRank(built[1].p.R)
    /\ built[1].E = 4

\* the evanescent modes of lead l with |lambda| = 1, by their positions
GrazingOf(l) ==
    {k \in 1..Len(BundleOf(l).evan_out) : OnUnitCircle(BundleOf(l).evan_out[k].lam)}
\* m is, unscaled, a vector the eigensolver gave for the solved problem q
IsRawModeOf(m, q, shear) ==
    \E k \in 1..Len(q.pairs) :
        /\ RawModes(q.p, Sheared(q.pairs, shear))[k].lam = m.lam
        /\ RawModes(q.p, Sheared(q.pairs, shear))[k].full = m.phi \o m.phibar \o m.xibar
Unscaled(l, m) ==
    \E s \in 1..MaxSqrtNorm, shear \in 0..MaxShear :
        IsRawModeOf(m, Prepared(leads[l].H, leads[l].V, energy, s), shear)
\* a chain at an edge of its band, E = 0 or E = 4t: lambda = 1 or -1, v = 0
BandEdgeChain(l) == IsChain(l) /\ BandPosition(l) \in {Zero, Re(4)}

IncomingCount == Len(AllIncoming)
\* the unknowns returned, Psi_s above Q_+
SolutionOf == ResultOf.Psi \o ResultOf.Q
\* every row of the matrix X has n entries
HasColumns(X, n) == \A i \in 1..Len(X) : Len(X[i]) = n

MatrixOf == BlockMatrix(region, Attached(region), energy)

FactorA(l) ==
    IF leads[l].out.path = "nonsingular"
    THEN FactorScalar(leads[l].V, BundleOf(l).B[1][1][1]).A
    ELSE FactorSvd(leads[l].V).A
IsInjective(A) == Rank(A) = NCols(A)
\* the rows of the system written with A, from the rows M of the reduced one:
\* the first N rows as they are, the block of each lead multiplied by its A
WithA(M, N, full, reduced) ==
    Mat([i \in 1..(N + SumTo(full, Len(full))) |->
            IF i <= N THEN M[i]
            ELSE [j \in 1..NCols(M) |->
                    CSum([k \in 1..reduced[Locate(full, i - N).l] |->
                        CMul(FactorA(Locate(full, i - N).l)[Locate(full, i - N).a][k],
                             M[N + SumTo(reduced, Locate(full, i - N).l - 1) + k][j])])]])
\* the matrix M and the right-hand sides R side by side
Beside(M, R) == Mat([i \in 1..NRows(M) |-> M[i] \o R[i]])
\* the reduced system of the state, and the system written with A
ReducedSystem == Beside(MatrixOf, RightHandSide(region, Attached(region)))
SystemWithA ==
    WithA(ReducedSystem, NRows(region), Vec([l \in 1..Len(leads) |-> NRows(leads[l].V)]),
          RowSizes(Attached(region)))
\* the columns lo..hi of the rows of M
Part(M, lo, hi) == Mat([i \in 1..NRows(M) |-> SubSeq(M[i], lo, hi)])
\* the systems red and full, of n unknowns, have the same solutions
SameSolutions(red, full, n) ==
    /\ Rank(full) = Rank(red)
    /\ Rank(Part(full, 1, n)) = Rank(Part(red, 1, n))
\* X solves the system sys of n unknowns
Solves(X, sys, n) ==
    Len(sys[1]) > n => MatMul(Part(sys, 1, n), X) = Part(sys, n + 1, Len(sys[1]))

\* C24: the factor A of V_l = A B^dagger is injective on both paths, and the
\* system written with A has the solutions of the reduced system and no
\* other: the ranks of the two matrices, alone and with the right-hand
\* sides, agree, and the unknowns returned solve the system written with A.
C24_ReducedSystemIsEquivalent ==
    /\ \A l \in Returned :
          /\ IsInjective(FactorA(l))
          /\ MulDag(FactorA(l), BundleOf(l).B) = leads[l].V
    /\ Assembled =>
          /\ SameSolutions(ReducedSystem, SystemWithA, NRows(region) + Len(AllOutgoing))
          /\ HasResult => Solves(SolutionOf, SystemWithA, Len(SolutionOf))

\* an assembly with a lead of rank one among two sites: A has two rows and one
\* column, and the system written with A has a row more than the reduced one
C24_Witness ==
    /\ HasResult /\ IncomingCount >= 1
    /\ \E l \in Returned :
          /\ leads[l].out.path = "singular"
          /\ NRows(FactorA(l)) = 2 /\ NCols(FactorA(l)) = 1
    /\ NRows(SystemWithA) = NRows(ReducedSystem) + 1

\* the step is a call of solve_modes: one more lead is held
IsModesCall == phase = "modes" /\ phase' = "modes" /\ Len(leads') = Len(leads) + 1
\* the step is a call of solve_scattering
IsScatteringCall == phase = "modes" /\ phase' = "done"
\* the lead record r holds a lead of the catalog as it was passed
HoldsInputs(r) ==
    \E c \in 1..Len(LeadCatalog) : r.H = LeadCatalog[c].H /\ r.V = LeadCatalog[c].V

\* what a call leaves as it was
InputsKept ==
    /\ IsModesCall =>
          /\ SubSeq(leads', 1, Len(leads)) = leads
          /\ HoldsInputs(leads'[Len(leads')])
          /\ energy' = energy /\ region' = region
    /\ IsScatteringCall =>
          /\ leads' = leads
          /\ energy' = energy /\ outcome'.energy = energy
          /\ \E k \in 1..Len(RegionCatalog) : region' = RegionCatalog[k]

Declared == IF fill.builder = "lead_x" THEN lead_x ELSE lead_y
IsUnitaryMatrix(U) == MatMul(Dagger(U), U) = Ident(NRows(U)) /\ MatMul(U, Dagger(U)) = Ident(NRows(U))
Anticommute(U, W) == MatMul(U, W) = MScale(Re(-1), MatMul(W, U))
\* the unit vectors of the block of W of eigenvalue c
BlockOf(W, c) ==
    {x \in {Ident(NRows(W))[k] : k \in 1..NRows(W)} : MatVec(W, x) = VScale(c, x)}

\* C26: the time-reversal matrix kron(i sigma_y, sigma_0) of the example
\* leads is unitary and anticommutes with the conservation law
\* kron(-sigma_z, sigma_0), so that time reversal (U with the complex
\* conjugation) maps the block of eigenvalue -1 into the block of eigenvalue
\* +1 and the other way round; lead_x and lead_y declare the same pair.
C26_TimeReversalExchangesBlocks ==
    fill.builder \in {"lead_x", "lead_y"} =>
        /\ IsUnitaryMatrix(Declared.time_reversal)
        /\ Anticommute(Declared.time_reversal, Declared.conservation_law)
        /\ Cardinality(BlockOf(Declared.conservation_law, Re(-1))) = 2
        /\ Cardinality(BlockOf(Declared.conservation_law, One)) = 2
        /\ \A c \in {One, Re(-1)} : \A x \in BlockOf(Declared.conservation_law, c) :
              MatVec(Declared.conservation_law,
                     TimeReversedPhi(Declared.time_reversal, x))
                  = VScale(CNeg(c), TimeReversedPhi(Declared.time_reversal, x))
        /\ lead_x.time_reversal = lead_y.time_reversal
        /\ lead_x.conservation_law = lead_y.conservation_law

\* lead_y is being filled, after its declaration
C26_Witness ==
    /\ fill.builder = "lead_y"
    /\ fill.site = <<49, 0>>
    /\ Declared.conservation_law[1][1] = Re(-1)

\* 30^2 < x^2 + (y - 50)^2 < 50^2, x >= 0 and y <= 50
InQuarterRing(x, y) ==
    /\ 900 < x * x + (y - 50) * (y - 50) /\ x * x + (y - 50) * (y - 50) < 2500
    /\ x >= 0 /\ y <= 50
\* the site being added and the sites next to it, which fill tests
Tested == {fill.site} \cup Neighbours(fill.site)
\* the sites of the lines x = 0 and y = 50 around the region
EdgeRange == (-1)..101

\* C27: scattering_region holds for a site (x, y) exactly when
\* 30^2 < x^2 + (y - 50)^2 < 50^2, x >= 0 and y <= 50; each fill start site
\* is inside the shape it fills; every region site with x = 0 has
\* 1 <= y <= 20 and every region site with y = 50 has 30 <= x <= 49.
C27_RegionShapeAndLeadEdges ==
    /\ fill.builder = "syst" =>
          \A site \in Tested : scattering_region(site) <=> InQuarterRing(site[1], site[2])
    /\ StartOf("syst") = <<0, 10>> /\ scattering_region(<<0, 10>>)
    /\ StartOf("lead_x") = <<0, 1>> /\ Shape("lead_x", <<0, 1>>)
    /\ StartOf("lead_y") = <<35, 0>> /\ Shape("lead_y", <<35, 0>>)
    /\ fill.builder \in Builders => Shape(fill.builder, fill.site)
    /\ \A y \in EdgeRange : scattering_region(<<0, y>>) => 1 <= y /\ y <= 20
    /\ \A x \in EdgeRange : scattering_region(<<x, 50>>) => 30 <= x /\ x <= 49
    /\ fill.builder = "syst" /\ fill.site[1] = 0 =>
          Shape("lead_x", fill.site)
    /\ fill.builder = "syst" /\ fill.site[2] = 50 =>
          Shape("lead_y", <<fill.site[1], 0>>)

\* the fill of the region, started at (0, 10) on the edge of lead_x, has
\* reached the edge of lead_y
C27_Witness ==
    /\ fill.builder = "syst"
    /\ fill.site = <<31, 50>>
    /\ scattering_region(fill.site)

(***************************************************************************)
(* solve_modes with symmetry operators: the order of its steps             *)
(***************************************************************************)
\* a call with a conservation law has changed basis
InBlocks == built # <<>> /\ built[1].stage \in {"blocks", "done"}
\* the blocks of the conservation law in the basis of the call
RangesOf(r) == BlockRanges(InBasis(r.basis[1], r.conservation_law), 1)
\* the entries of the log about block b
EntriesOf(r, b) == SelectSeq(r.log, LAMBDA e : e.block = b)
\* the pairs of blocks that the time reversal supplied relates
RelatedPairs(r) ==
    IF r.T = <<>> THEN {}
    ELSE {pair \in (1..Len(RangesOf(r))) \X (1..Len(RangesOf(r))) :
             Related(TimeReversalInBasis(r.basis[1], r.T[1]), RangesOf(r),
                     pair[1], pair[2])}
\* the modes of a bundle
ModesIn(bundle) == bundle.prop_out \o bundle.prop_in \o bundle.evan_out
\* m is a mode of (H, V) at E held with the factor B: phi # 0 satisfies the
\* quadratic relation at lambda, and phibar = B^dagger phi
IsModeWith(H, V, E, B, m) ==
    /\ ~IsZeroVec(m.phi)
    /\ IsZeroVec(QuadraticResidual(H, V, E, m.lam, m.phi))
    /\ m.phibar = MatVec(Dagger(B), m.phi)
\* the bundle holds modes of (H, V) at E, the propagating ones sorted by the
\* sign of their velocity
IsBundleOf(H, V, E, bundle) ==
    /\ \A k \in 1..Len(ModesIn(bundle)) : IsModeWith(H, V, E, bundle.B, ModesIn(bundle)[k])
    /\ \A k \in 1..Len(bundle.prop_out) :
           /\ OnUnitCircle(bundle.prop_out[k].lam)
           /\ Velocity(V, bundle.prop_out[k].lam, bundle.prop_out[k].phi)[1] > 0
    /\ \A k \in 1..Len(bundle.prop_in) :
           /\ OnUnitCircle(bundle.prop_in[k].lam)
           /\ Velocity(V, bundle.prop_in[k].lam, bundle.prop_in[k].phi)[1] < 0
    /\ \A k \in 1..Len(bundle.evan_out) :
           bundle.evan_out[k].grazing \/ RealLeq(CAbs2(bundle.evan_out[k].lam), One)

\* the basis is changed first, to one that diagonalizes the conservation law,
\* and every eigenproblem is that of one block in this basis
BasisFirst(r) ==
    /\ Diagonalizes(r.basis[1], r.conservation_law)
    /\ r.log # <<>> /\ r.log[1].op = "basis"
    /\ \A i \in 2..Len(r.log) :
           /\ r.log[i].op \in {"eigenproblem", "transform"}
           /\ r.log[i].op = "eigenproblem" =>
                  /\ r.log[i].H = SubBlock(InBasis(r.basis[1], r.H),
                                           RangesOf(r)[r.log[i].block],
                                           RangesOf(r)[r.log[i].block])
                  /\ r.log[i].V = SubBlock(InBasis(r.basis[1], r.V),
                                           RangesOf(r)[r.log[i].block],
                                           RangesOf(r)[r.log[i].block])
\* each block is handled once, and of two related blocks at most one by an
\* eigensolve; when the call is done every block was handled, and of two
\* related blocks one by an eigensolve and the other by the transformation
OneEigensolveForAPair(r) ==
    /\ \A b \in 1..Len(RangesOf(r)) :
           /\ Len(EntriesOf(r, b)) <= 1
           /\ r.stage = "done" => Len(EntriesOf(r, b)) = 1
           /\ r.T = <<>> /\ EntriesOf(r, b) # <<>> => EntriesOf(r, b)[1].op = "eigenproblem"
    /\ \A pair \in RelatedPairs(r) :
           /\ ~ /\ EntriesOf(r, pair[1]) # <<>> /\ EntriesOf(r, pair[2]) # <<>>
                /\ EntriesOf(r, pair[1])[1].op = "eigenproblem"
                /\ EntriesOf(r, pair[2])[1].op = "eigenproblem"
           /\ r.stage = "done" =>
                  {EntriesOf(r, pair[1])[1].op, EntriesOf(r, pair[2])[1].op}
                      = {"eigenproblem", "transform"}
\* the modes obtained by the transformation are modes of their block, and
\* the modes returned are modes of the lead as it was given
TransformedAreModes(r) ==
    /\ \A b \in 1..Len(r.blocks) :
           r.blocks[b].from = "transform" /\ r.blocks[b].out[1].err = "none" =>
               IsBundleOf(r.blocks[b].H, r.blocks[b].V, r.E, r.blocks[b].out[1].bundle[1])
    /\ r.stage = "done" /\ r.out[1].err = "none" =>
           IsBundleOf(r.H, r.V, r.E, r.out[1].bundle[1])

====
